---- MODULE Spec2Model ----
(***************************************************************************)
(* Model of the recommender parser service (parser-service/): the state    *)
(* matchers, the value resolver, the span locator, the text surgeon and    *)
(* the two patch coordinators findAndModifyInstances and                   *)
(* findAndModifyIAMRoleBindings.                                           *)
(*                                                                         *)
(* Text model.  A file content is a sequence of tokens; every token stands *)
(* for one run of characters of the manifest and the newline is a token of *)
(* its own, so that an offset of the code is an index into the sequence    *)
(* (0-based, as in JavaScript) and split('\n') / join('\n') are real       *)
(* operations.  Two tokens that are adjacent in the sequence are adjacent  *)
(* in the text: white space is the token "ws".                             *)
(***************************************************************************)
EXTENDS Integers, Sequences, FiniteSets, TLC

\* ------------------------------------------------------------------ bounds
MaxBlocks == 2      \* declarations in a manifest set
MaxFiles == 2       \* .tf files in a manifest set
MaxRecs == 2        \* recommendations in a batch

\* ------------------------------------------------------------------ tokens
Tok(k, a, b) == [k |-> k, a |-> a, b |-> b]

NL == Tok("nl", "", "")                 \* the character '\n'
Ws(n) == Tok("ws", n, "")               \* n spaces
Res(t, n) == Tok("res", t, n)           \* resource "t" "n" {
MT(v) == Tok("mt", v, "")               \* machine_type = "v"
Project(v) == Tok("project", v, "")     \* project = "v"
Role(v) == Tok("role", v, "")           \* role = "v"
MembersOpen == Tok("members", "", "")   \* members = [
Mem(v) == Tok("mem", v, "")             \* "v"   (an element of the list)
Comma == Tok("comma", "", "")           \* ,
RBracket == Tok("rbracket", "", "")     \* ]
AccountId(v) == Tok("account_id", v, "") \* account_id = "v"
Open(n) == Tok("open", n, "")           \* n {   (a nested block)
RBrace == Tok("rbrace", "", "")         \* }
Other(v) == Tok("other", v, "")         \* any other attribute, e.g. zone = "z"
CommentOpen == Tok("co", "", "")        \* the three characters "/* "
CommentClose == Tok("cc", "", "")       \* the three characters " */"
RefOpen == Tok("refopen", "", "")       \* "${   (a reference written over lines)
RefName(n) == Tok("refname", n, "")     \* var.n
RefClose == Tok("refclose", "", "")     \* }"
Lit(v) == Tok("lit", v, "")             \* "v"

VMType == "google_compute_instance"
IAMType == "google_project_iam_binding"
SAType == "google_service_account"

\* ${var.NAME} and ${google_service_account.NAME.account_id} as they are written
VarRef(n) == "${var." \o n \o "}"
SARef(n) == "${google_service_account." \o n \o ".account_id}"
\* a member string built around an account id (literal or reference)
SAMember(x) == "serviceAccount:" \o x \o "@p1.iam.gserviceaccount.com"

VarNames == {"size", "project"}
SANames == {"sa1", "sa2"}
\* the references the manifests may hold
VarRefs == {VarRef(n) : n \in VarNames}
SAMemberRefs == {SAMember(SARef(n)) : n \in SANames}
\* the values [\w -]+ accepts: no '$', '{', '}', '.', ':' or '/'
WordValues == {"g1-small", "n1-standard-2", "e2-medium", "p1", "acct1", "acct2"}

\* ------------------------------------------------------------ sequences
RECURSIVE Flatten(_)
Flatten(ss) == IF ss = <<>> THEN <<>> ELSE Head(ss) \o Flatten(Tail(ss))

Range(s) == {s[i] : i \in DOMAIN s}

\* text.split('\n'): the lines of a text; a text without newline is one line
SplitNL(text) ==
    LET IsNL(i) == text[i] = NL
        nls == SelectSeq([i \in DOMAIN text |-> i], IsNL)
    IN [k \in 1..(Len(nls) + 1) |->
           SubSeq(text, IF k = 1 THEN 1 ELSE nls[k - 1] + 1,
                        IF k > Len(nls) THEN Len(text) ELSE nls[k] - 1)]

\* lines.join('\n')
RECURSIVE JoinNL(_)
JoinNL(lines) ==
    IF Len(lines) = 0 THEN <<>>
    ELSE IF Len(lines) = 1 THEN lines[1]
    ELSE lines[1] \o <<NL>> \o JoinNL(Tail(lines))

\* text[i] of JavaScript: 0-based, undefined outside the text
CharAt(text, i) == IF i >= 0 /\ i < Len(text) THEN text[i + 1] ELSE Tok("undefined", "", "")

\* ------------------------------------------------------------ span locator
\* the count that leaves out the character at index itself
findLineNumbersFromCharacters_Before(text, index) ==
    1 + Cardinality({i \in 0..(index - 1) : i < Len(text) /\ text[i + 1].k = "nl"})

\* findLineNumbersFromCharacters(text, index): 1 + the newlines at 0..index
findLineNumbersFromCharacters(text, index) ==
    1 + Cardinality({i \in 0..index : CharAt(text, i) = NL})

\* ------------------------------------------------------------ text surgeon
\* allLines[n - 1] = v on a JavaScript array (inside the array in every use)
SetLine(allLines, n, v) == [allLines EXCEPT ![n] = v]

\* commentLines closing the comment one line after endLine
commentLines_Spill(text, startLine, endLine) ==
    LET allLines == SplitNL(text)
        last == IF endLine < Len(allLines) THEN endLine + 1 ELSE endLine
        l1 == SetLine(allLines, startLine, <<CommentOpen>> \o allLines[startLine])
        l2 == SetLine(l1, last, l1[last] \o <<CommentClose>>)
    IN JoinNL(l2)

\* commentLines(text, startLine, endLine)
commentLines(text, startLine, endLine) ==
    LET allLines == SplitNL(text)
        l1 == SetLine(allLines, startLine, <<CommentOpen>> \o allLines[startLine])
        l2 == SetLine(l1, endLine, l1[endLine] \o <<CommentClose>>)
    IN JoinNL(l2)

\* copyLines(text, startLine, endLine): allLines.slice(startLine - 1, endLine)
copyLines(text, startLine, endLine) ==
    LET allLines == SplitNL(text)
        last == IF endLine > Len(allLines) THEN Len(allLines) ELSE endLine
    IN JoinNL(SubSeq(allLines, startLine, last))

\* replaceLine writing at the 0-based index lineNum: one line too low
replaceLine_ZeroBased(contents, lineNum, text) ==
    JoinNL(SetLine(SplitNL(contents), lineNum + 1, text))

\* the text put before the line instead of in its place
replaceLine_Insert(contents, lineNum, text) ==
    LET allLines == SplitNL(contents)
    IN JoinNL(SubSeq(allLines, 1, lineNum - 1) \o <<text>>
                 \o SubSeq(allLines, lineNum, Len(allLines)))

\* replaceLine(contents, lineNum, text)
replaceLine(contents, lineNum, text) ==
    JoinNL(SetLine(SplitNL(contents), lineNum, text))

\* ------------------------------------------------------------ value resolver
Quoted(v) == "\"" \o v \o "\""
\* value.replace(/"/g, '')
Unquote(s) == IF \E v \in WordValues : s = Quoted(v)
              THEN CHOOSE v \in WordValues : s = Quoted(v)
              ELSE s

\* The variable file: whether it can be read and its lines, each line the sequence
\* of the fields that line.split('=') yields (white space around a field elided).
RECURSIVE ParseVarLines(_, _)
ParseVarLines(lines, variables) ==
    IF lines = <<>> THEN variables
    ELSE LET line == Head(lines)
             ok == Len(line) >= 2 /\ line[1] # "" /\ line[2] # ""
             nxt == IF ok
                    THEN [k \in DOMAIN variables \cup {line[1]} |->
                            IF k = line[1] THEN Unquote(line[2]) ELSE variables[k]]
                    ELSE variables
         IN ParseVarLines(Tail(lines), nxt)

\* values made up for the variables when the file cannot be read
getTFVariables_Defaults(varFile) ==
    IF ~varFile.exists THEN [n \in {"size", "project"} |-> IF n = "size" THEN "g1-small" ELSE "p1"]
    ELSE ParseVarLines(varFile.lines, <<>>)

\* getTFVariables(variableFilePath): an unreadable file is caught and yields {}
getTFVariables(varFile) ==
    IF ~varFile.exists THEN <<>> ELSE ParseVarLines(varFile.lines, <<>>)

\* contents.replace(/\$\{\s*var\.NAME\s*}/gs, value) for every NAME of variables
ReplaceVarTok(tok, variables) ==
    IF tok.a \in VarRefs /\ \E n \in DOMAIN variables : tok.a = VarRef(n)
    THEN [tok EXCEPT !.a = variables[CHOOSE n \in DOMAIN variables : tok.a = VarRef(n)]]
    ELSE tok

\* the first index >= from at which `hit` holds, 0 when there is none; `hit`
\* tells of each index of the text whether the part of the pattern matches there
FirstFrom(text, from, hit) ==
    IF \E i \in from..Len(text) : hit[i]
    THEN CHOOSE i \in from..Len(text) :
            hit[i] /\ \A j \in from..(i - 1) : ~hit[j]
    ELSE 0

\* \s* of the pattern: white space, newlines included
IsSpace(tok) == tok.k \in {"ws", "nl"}

\* where the match of ${\s*var.NAME\s*} that starts with the text ends, for a
\* NAME of variables; 0 when the text does not start with such a match
SpreadEnd(text, variables) ==
    IF text = <<>> \/ text[1] # RefOpen THEN 0
    ELSE LET j == FirstFrom(text, 2, [n \in DOMAIN text |-> ~IsSpace(text[n])])
             k == IF j = 0 THEN 0
                  ELSE FirstFrom(text, j + 1, [n \in DOMAIN text |-> ~IsSpace(text[n])])
         IN IF k # 0 /\ text[j].k = "refname" /\ text[j].a \in DOMAIN variables
                     /\ text[k] = RefClose
            THEN k ELSE 0

\* the replacement of the references that are written over several tokens:
\* the match, with the white space and the newlines in it, gives way to the value
RECURSIVE ReplaceSpread(_, _)
ReplaceSpread(text, variables) ==
    IF text = <<>> THEN <<>>
    ELSE LET end == SpreadEnd(text, variables)
         IN IF end > 0
            THEN <<Lit(variables[text[FirstFrom(text, 2,
                        [n \in DOMAIN text |-> ~IsSpace(text[n])])].a])>>
                     \o ReplaceSpread(SubSeq(text, end + 1, Len(text)), variables)
            ELSE <<Head(text)>> \o ReplaceSpread(Tail(text), variables)

replaceInContents(file, variables) ==
    LET contents == [i \in DOMAIN file.contents |->
                        ReplaceVarTok(file.contents[i], variables)]
    IN [file EXCEPT !.contents = IF \E i \in DOMAIN contents : contents[i] = RefOpen
                                 THEN ReplaceSpread(contents, variables)
                                 ELSE contents]

\* replaceVariableValuesInTFFiles(repoDir, tfContents)
replaceVariableValuesInTFFiles(varFile, tfContents) ==
    LET variables == getTFVariables(varFile)
    IN [i \in DOMAIN tfContents |-> replaceInContents(tfContents[i], variables)]

\* \w+ and [\w -]+
IsIdent(v) == v \in {"p1", "acct1", "acct2"}
IsWord(v) == v \in WordValues

\* a token whose text holds the character '}'
HasRBrace(tok) ==
    tok.k = "rbrace" \/ tok.k = "refclose" \/ tok.a \in VarRefs \/ tok.a \in SAMemberRefs

\* resource\s*"google_service_account"\s*"(\w+)"\s*{.+?account_id\s*=\s*"(\w+)".+?}
\* exec: the first declaration of the file only
FindServiceAccount(text) ==
    LET IsSA(t) == t.k = "res" /\ t.a = SAType
        IsAcct(t) == t.k = "account_id" /\ IsIdent(t.a)
        i == FirstFrom(text, 1, [n \in DOMAIN text |-> IsSA(text[n])])
        j == IF i = 0 THEN 0 ELSE FirstFrom(text, i + 2, [n \in DOMAIN text |-> IsAcct(text[n])])
        e == IF j = 0 THEN 0 ELSE FirstFrom(text, j + 2, [n \in DOMAIN text |-> HasRBrace(text[n])])
    IN IF e = 0 THEN [found |-> FALSE, name |-> "", id |-> ""]
       ELSE [found |-> TRUE, name |-> text[i].b, id |-> text[j].a]

\* the map serviceaccountname -> account_id built over all files
RECURSIVE ServiceAccountsOf(_, _)
ServiceAccountsOf(tfContents, acc) ==
    IF tfContents = <<>> THEN acc
    ELSE LET g == FindServiceAccount(Head(tfContents).contents)
             nxt == IF g.found
                    THEN [k \in DOMAIN acc \cup {g.name} |->
                            IF k = g.name THEN g.id ELSE acc[k]]
                    ELSE acc
         IN ServiceAccountsOf(Tail(tfContents), nxt)

ReplaceSATok(tok, serviceAccounts) ==
    IF tok.a \in SAMemberRefs /\ \E n \in DOMAIN serviceAccounts : tok.a = SAMember(SARef(n))
    THEN [tok EXCEPT !.a = SAMember(serviceAccounts[
             CHOOSE n \in DOMAIN serviceAccounts : tok.a = SAMember(SARef(n))])]
    ELSE tok

\* replaceServiceAccountValues(tfContents)
replaceServiceAccountValues(tfContents) ==
    LET serviceAccounts == ServiceAccountsOf(tfContents, <<>>)
    IN IF DOMAIN serviceAccounts # {}
       THEN [i \in DOMAIN tfContents |->
               [path |-> tfContents[i].path,
                contents |-> [k \in DOMAIN tfContents[i].contents |->
                    ReplaceSATok(tfContents[i].contents[k], serviceAccounts)]]]
       ELSE tfContents

\* ------------------------------------------------------------ state matcher
instanceIdPrefixToRemove == "//compute.googleapis.com/"
InstanceIds == {"projects/p/zones/z/instances/i", "projects/p/zones/z/instances/j",
                "projects/p/zones/z/instances/k"}

\* s.substring(n), for the strings of the model: what follows the first n
\* characters
Substring(s, n) ==
    IF \E t \in InstanceIds : Len(s) = n + Len(t) /\ s = instanceIdPrefixToRemove \o t
    THEN CHOOSE t \in InstanceIds : Len(s) = n + Len(t) /\ s = instanceIdPrefixToRemove \o t
    ELSE s

\* {...r, name: v}
With(r, name, v) == [f \in DOMAIN r \cup {name} |-> IF f = name THEN v ELSE r[f]]

\* getVMResourcesByIdFromState(state, vmList): resources, then instances, then vmList
VMMatchesOfInstance(resource, instance, vmList) ==
    LET hit(vm) == Substring(vm.instanceID, Len(instanceIdPrefixToRemove))
                       = instance.attributes.id
    IN [k \in DOMAIN SelectSeq(vmList, hit) |->
           With(SelectSeq(vmList, hit)[k], "tfResourceName", resource.name)]

\* the matcher without the test of the resource type
VMMatchesOfResource_AnyType(resource, vmList) ==
    Flatten([k \in DOMAIN resource.instances |->
                VMMatchesOfInstance(resource, resource.instances[k], vmList)])

VMMatchesOfResource(resource, vmList) ==
    IF resource.type = VMType
    THEN Flatten([k \in DOMAIN resource.instances |->
                     VMMatchesOfInstance(resource, resource.instances[k], vmList)])
    ELSE <<>>

getVMResourcesByIdFromState(state, vmList) ==
    Flatten([k \in DOMAIN state.resources |-> VMMatchesOfResource(state.resources[k], vmList)])

\* getProjectNumberFromProjectID(projectID): the Resource Manager lookup
ProjectNumbers == [p1 |-> "1001", p2 |-> "1002"]
getProjectNumberFromProjectID(projectID) ==
    IF projectID \in DOMAIN ProjectNumbers THEN ProjectNumbers[projectID] ELSE projectID

\* projectMapping after the first loop of getIAMBindingsFromState: every
\* instance of every resource (of any type) contributes its project
StateProjects(state) ==
    UNION {{state.resources[k].instances[n].attributes.project :
               n \in DOMAIN state.resources[k].instances} : k \in DOMAIN state.resources}

projectMapping(state, stub) ==
    [p \in StateProjects(state) |-> IF stub THEN p ELSE getProjectNumberFromProjectID(p)]

\* the project of every instance of every resource, in the order of the loops
ProjectsInOrder(state) ==
    Flatten([k \in DOMAIN state.resources |->
                [n \in DOMAIN state.resources[k].instances |->
                    state.resources[k].instances[n].attributes.project]])

\* the first loop looking every project up again
RECURSIVE ProjectLookups_NoMemo(_, _, _)
ProjectLookups_NoMemo(projects, stub, known) ==
    IF projects = <<>> THEN <<>>
    ELSE (IF stub THEN <<>> ELSE <<Head(projects)>>)
            \o ProjectLookups_NoMemo(Tail(projects), stub, known)

\* lines 250-262, the first loop of getIAMBindingsFromState: the projects that
\* getProjectNumberFromProjectID is called with, in order. `known` are the
\* projects for which projectMapping.get yields a value that is not falsy.
RECURSIVE ProjectLookups(_, _, _)
ProjectLookups(projects, stub, known) ==
    IF projects = <<>> THEN <<>>
    ELSE LET project == Head(projects)
             projectNumber == IF stub THEN project
                              ELSE getProjectNumberFromProjectID(project)
         IN IF project \in known
            THEN ProjectLookups(Tail(projects), stub, known)
            ELSE (IF stub THEN <<>> ELSE <<project>>)
                    \o ProjectLookups(Tail(projects), stub,
                                      IF projectNumber # "" THEN known \cup {project}
                                      ELSE known)

\* the matcher leaving the recommendation's project as it came
IAMMatchesOfInstance_KeepProject(resource, instance, iamRecommendations, mapping) ==
    LET hit(rec) == /\ mapping[instance.attributes.project] = rec.project
                    /\ instance.attributes.role = rec.role
                    /\ rec.member \in Range(instance.attributes.members)
        hits == SelectSeq(iamRecommendations, hit)
    IN [k \in DOMAIN hits |-> With(hits[k], "resourceName", resource.name)]

\* getIAMBindingsFromState(state, iamRecommendations, isStub)
IAMMatchesOfInstance(resource, instance, iamRecommendations, mapping) ==
    LET hit(rec) == /\ mapping[instance.attributes.project] = rec.project
                    /\ instance.attributes.role = rec.role
                    /\ rec.member \in Range(instance.attributes.members)
        hits == SelectSeq(iamRecommendations, hit)
    IN [k \in DOMAIN hits |->
           With(With(hits[k], "resourceName", resource.name),
                "project", instance.attributes.project)]

IAMMatchesOfResource(resource, iamRecommendations, mapping) ==
    IF resource.type = IAMType
    THEN Flatten([k \in DOMAIN resource.instances |->
             IAMMatchesOfInstance(resource, resource.instances[k], iamRecommendations, mapping)])
    ELSE <<>>

getIAMBindingsFromState(state, iamRecommendations, stub) ==
    Flatten([k \in DOMAIN state.resources |->
                IAMMatchesOfResource(state.resources[k], iamRecommendations,
                                     projectMapping(state, stub))])

\* ------------------------------------------------------------ declarations
\* (resource\s+"google_compute_instance"\s+"NAME".+?machine_type\s+=\s+)"([\w -]+)"
\* exec on the resolved view: start, the assignment the pattern ends on, and
\* start + matches[0].indexOf('machine_type'), all as 1-based token indexes
FindInstance(text, tfResourceName) ==
    LET IsDecl(t) == t.k = "res" /\ t.a = VMType /\ t.b = tfResourceName
        IsLiteralMT(t) == t.k = "mt" /\ IsWord(t.a)
        IsMT(t) == t.k = "mt"
        i == FirstFrom(text, 1, [n \in DOMAIN text |-> IsDecl(text[n])])
        j == IF i = 0 THEN 0 ELSE FirstFrom(text, i + 1, [n \in DOMAIN text |-> IsLiteralMT(text[n])])
    IN IF j = 0 THEN [found |-> FALSE, start |-> 0, value |-> 0, word |-> 0]
       ELSE [found |-> TRUE, start |-> i, value |-> j,
             word |-> FirstFrom(text, i + 1, [n \in DOMAIN text |-> IsMT(text[n])])]

\* the line `  machine_type = "${resource.size}"`
NewMachineTypeLine(size) == <<Ws("2"), MT(size)>>

\* the iteration editing the text of the resolved view instead of the running
\* original content
ModifyInstanceInFile_FromView(file, original, resource) ==
    LET matches == FindInstance(file.contents, resource.tfResourceName)
        lineNumToReplace == findLineNumbersFromCharacters(file.contents, matches.word - 1)
    IN IF matches.found
       THEN [claimed |-> TRUE,
             file |-> [path |-> file.path,
                       contents |-> replaceLine(file.contents, lineNumToReplace,
                                                NewMachineTypeLine(resource.size))]]
       ELSE [claimed |-> FALSE, file |-> original]

\* the body of tfFiles.map((file, index) => ...) of findAndModifyInstances for
\* one file: the new entry of originalFiles and whether the resource was claimed
ModifyInstanceInFile(file, original, resource) ==
    LET matches == FindInstance(file.contents, resource.tfResourceName)
        lineNumToReplace == findLineNumbersFromCharacters(file.contents, matches.word - 1)
    IN IF matches.found
       THEN [claimed |-> TRUE,
             file |-> [path |-> file.path,
                       contents |-> replaceLine(original.contents, lineNumToReplace,
                                                NewMachineTypeLine(resource.size))]]
       ELSE [claimed |-> FALSE, file |-> original]

\* the claim with the identifier and the tag swapped
Claim_Swapped(resource) == [id |-> resource.recommendationETAG, etag |-> resource.recommendationID]

Claim(resource) == [id |-> resource.recommendationID, etag |-> resource.recommendationETAG]

\* the {id, etag} pushed while one resource is mapped over the files, in file order
ClaimsOf(results, resource) ==
    LET hit(k) == results[k].claimed
    IN [k \in DOMAIN SelectSeq([n \in DOMAIN results |-> n], hit) |-> Claim(resource)]

\* resource\s+"google_project_iam_binding"\s+"NAME"\s+{.+?project\s*=\s*"P".+?
\*   role\s*=\s*"R".+?members\s*=\s*(\[.+?"M".+?\]).+?}
\* exec on the resolved view.  Every .+? takes at least one character and, the
\* flag s being set, crosses lines and blocks: each part is the first one that
\* lies at least two tokens after the part before it.
FindBinding(text, resource) ==
    LET IsDecl(t) == t.k = "res" /\ t.a = IAMType /\ t.b = resource.resourceName
        IsProject(t) == t = Project(resource.project)
        IsRole(t) == t = Role(resource.role)
        IsOpen(t) == t = MembersOpen
        IsMember(t) == t = Mem(resource.member)
        IsClose(t) == t = RBracket
        i == FirstFrom(text, 1, [n \in DOMAIN text |-> IsDecl(text[n])])
        p == IF i = 0 THEN 0 ELSE FirstFrom(text, i + 2, [n \in DOMAIN text |-> IsProject(text[n])])
        r == IF p = 0 THEN 0 ELSE FirstFrom(text, p + 2, [n \in DOMAIN text |-> IsRole(text[n])])
        o == IF r = 0 THEN 0 ELSE FirstFrom(text, r + 2, [n \in DOMAIN text |-> IsOpen(text[n])])
        m == IF o = 0 THEN 0 ELSE FirstFrom(text, o + 2, [n \in DOMAIN text |-> IsMember(text[n])])
        c == IF m = 0 THEN 0 ELSE FirstFrom(text, m + 2, [n \in DOMAIN text |-> IsClose(text[n])])
        e == IF c = 0 THEN 0 ELSE FirstFrom(text, c + 2, [n \in DOMAIN text |-> HasRBrace(text[n])])
    IN IF e = 0
       THEN [found |-> FALSE, start |-> 0, open |-> 0, close |-> 0, end |-> 0, member |-> 0]
       ELSE [found |-> TRUE, start |-> i, open |-> o, close |-> c, end |-> e,
             \* start + matches[0].indexOf('"M"')
             member |-> FirstFrom(text, i, [n \in DOMAIN text |-> IsMember(text[n])])]

\* JSON.parse of the text of a list, the brackets taken off: the member strings,
\* or a SyntaxError
JSONParse(inner) ==
    LET IsText(t) == t.k \notin {"ws", "nl"}
        toks == SelectSeq(inner, IsText)
        ok == /\ Len(toks) % 2 = 1
              /\ \A k \in DOMAIN toks : toks[k].k = (IF k % 2 = 1 THEN "mem" ELSE "comma")
    IN IF ok THEN [ok |-> TRUE, members |-> [k \in 1..((Len(toks) + 1) \div 2) |-> toks[2 * k - 1].a]]
       ELSE [ok |-> FALSE, members |-> <<>>]

\* additionalLines.replace(/(.+role\s*=\s*").+?(".+)/gs, `$1${add}$2`): the greedy
\* .+ reaches the last role assignment that some character follows
ReplaceRole(text, add) ==
    LET cands == {k \in DOMAIN text : text[k].k = "role" /\ k > 1 /\ k < Len(text)}
    IN IF cands = {} THEN text
       ELSE LET q == CHOOSE k \in cands : \A j \in cands : j <= k
            IN [text EXCEPT ![q] = Role(add)]

\* the 0-based offset matches.index + matches[0].length: the character after
\* the '}' the pattern ends on
MatchEnd(text, matches) ==
    IF text[matches.end].k = "rbrace" THEN matches.end ELSE matches.end - 1

\* the body of tfFiles.map((file, index) => ...) of findAndModifyIAMRoleBindings
\* for one file; branch is "none", "throw", "line", "block" or "block+add"
ModifyBindingInFile(file, original, resource) ==
    LET matches == FindBinding(file.contents, resource)
        parsed == JSONParse(SubSeq(file.contents, matches.open + 1, matches.close - 1))
        IsOther(mem) == mem # resource.member
        members == SelectSeq(parsed.members, IsOther)
        lineNumToComment == findLineNumbersFromCharacters(file.contents, matches.member - 1)
        startLine == findLineNumbersFromCharacters(file.contents, matches.start - 1)
        endLine == findLineNumbersFromCharacters(file.contents, MatchEnd(file.contents, matches))
        additionalLines ==
            IF resource.add # ""
            THEN ReplaceRole(<<NL, NL>> \o copyLines(original.contents, startLine, endLine),
                             resource.add)
            ELSE <<>>
    IN IF ~matches.found THEN [branch |-> "none", file |-> original]
       ELSE IF ~parsed.ok THEN [branch |-> "throw", file |-> original]
       ELSE IF Len(members) > 0
       THEN [branch |-> "line",
             file |-> [path |-> file.path,
                       contents |-> commentLines(original.contents, lineNumToComment,
                                                 lineNumToComment)]]
       ELSE [branch |-> IF resource.add # "" THEN "block+add" ELSE "block",
             file |-> [path |-> file.path,
                       contents |-> commentLines(original.contents, startLine, endLine)
                                       \o additionalLines]]

\* ------------------------------------------------------------ manifest loader
GIT_WORK_DIR_PATH == "/repo"
RepoName == "iac"
RepoPath == GIT_WORK_DIR_PATH \o "/" \o RepoName

\* path.extname(filePath).toLowerCase() === '.tf'
ToLowerCase(ext) == IF ext = ".TF" THEN ".tf" ELSE ext
isTerraformFile(entry) == ToLowerCase(entry.ext) = ".tf"

\* readAllTFFiles(repoDir): the regular files of the directory that are Terraform
\* files, in the order of readdir, each with its full path and its contents
readAllTFFiles(dir, repoDir) ==
    LET keep(entry) == ~entry.isDirectory /\ isTerraformFile(entry)
        kept == SelectSeq(dir, keep)
    IN [k \in DOMAIN kept |->
           [path |-> [dir |-> repoDir, base |-> kept[k].base, ext |-> kept[k].ext],
            contents |-> kept[k].contents]]

\* fs.readFile(path.join(repoDir, 'terraform.tfvars')): the lines of the file,
\* or the failure that getTFVariables catches
VarFileOf(dir) ==
    LET at(k) == dir[k].base = "terraform" /\ dir[k].ext = ".tfvars" /\ ~dir[k].isDirectory
    IN IF \E k \in DOMAIN dir : at(k)
       THEN [exists |-> TRUE, lines |-> dir[CHOOSE k \in DOMAIN dir : at(k)].contents]
       ELSE [exists |-> FALSE, lines |-> <<>>]

\* the file written to the destination under another name
WritePath_Renamed(path, repoPath, dest) ==
    IF path.dir = repoPath /\ dest # "" THEN [path EXCEPT !.dir = dest, !.base = "copy"]
    ELSE path

\* file.path.replace(repoPath, destPath || repoPath): the path the file is written to
WritePath(path, repoPath, dest) ==
    IF path.dir = repoPath /\ dest # "" THEN [path EXCEPT !.dir = dest] ELSE path

\* the writes of the write step that go to the directory dir
WrittenTo(dir, files, repoPath, dest) ==
    LET moved == [k \in DOMAIN files |->
                     [files[k] EXCEPT !.path = WritePath(files[k].path, repoPath, dest)]]
        IsThere(file) == file.path.dir = dir
    IN SelectSeq(moved, IsThere)

\* fs.writeFile(filePath, contents) for every file handed over, into the
\* directory the paths name
RECURSIVE WriteAll(_, _)
WriteAll(dir, files) ==
    IF files = <<>> THEN dir
    ELSE LET f == Head(files)
             at(entry) == entry.base = f.path.base /\ entry.ext = f.path.ext
             nxt == IF \E k \in DOMAIN dir : at(dir[k])
                    THEN [k \in DOMAIN dir |->
                            IF at(dir[k]) THEN [dir[k] EXCEPT !.contents = f.contents]
                            ELSE dir[k]]
                    ELSE Append(dir, [base |-> f.path.base, ext |-> f.path.ext,
                                      isDirectory |-> FALSE, contents |-> f.contents])
         IN WriteAll(nxt, Tail(files))

\* ------------------------------------------------------------ inputs
\* A declaration is written as its lines; a file is the lines of its
\* declarations joined by '\n'.  A declaration that ends with an empty line is
\* followed by a blank line (or ends the file with a newline).
VMBlocks == {
    \* sample-iac/compute.tf
    << <<Res(VMType, "default")>>, <<Ws("1"), Other("zone")>>, <<Ws("1"), MT("g1-small")>>,
       <<Ws("1"), Open("boot_disk")>>, <<Ws("1"), RBrace>>, <<RBrace>>, <<>> >>,
    \* the machine type is a variable
    << <<Res(VMType, "default")>>, <<Ws("2"), MT(VarRef("size"))>>, <<RBrace>> >>,
    \* no machine type
    << <<Res(VMType, "default")>>, <<Ws("2"), Other("zone")>>, <<RBrace>> >>,
    \* already of the recommended size, written as the service writes it
    << <<Res(VMType, "web")>>, <<Ws("2"), MT("n1-standard-2")>>, <<RBrace>> >>,
    \* a declaration on one line
    << <<Res(VMType, "web"), Ws("1"), MT("g1-small"), Ws("1"), RBrace>>, <<>> >>,
    \* another resource type with a machine type
    << <<Res("google_compute_instance_template", "default")>>,
       <<Ws("2"), MT("g1-small")>>, <<RBrace>> >> }

FileNames == <<[base |-> "main", ext |-> ".tf"], [base |-> "iam", ext |-> ".TF"],
               [base |-> "extra", ext |-> ".tf"], [base |-> "more", ext |-> ".tf"]>>

\* the files of at most n declarations each
BlockLists(blocks, n) == UNION {[1..k -> blocks] : k \in 1..n}

\* the manifest sets of at most `files` files and `budget` declarations in all,
\* every file with at least one declaration: sequences of lists of declarations
RECURSIVE ManifestSets(_, _, _)
ManifestSets(blocks, budget, files) ==
    {<<>>} \cup
    (IF budget = 0 \/ files = 0 THEN {}
     ELSE UNION {{<<f>> \o rest : rest \in ManifestSets(blocks, budget - Len(f), files - 1)} :
                    f \in BlockLists(blocks, budget)})

\* the directory of a checkout: the manifest files, a directory, a file that is
\* no manifest, and terraform.tfvars when there is one
Checkout(manifest, varLines) ==
    [k \in DOMAIN manifest |->
        [base |-> FileNames[k].base, ext |-> FileNames[k].ext, isDirectory |-> FALSE,
         contents |-> JoinNL(Flatten(manifest[k]))]]
    \o <<[base |-> "modules", ext |-> ".tf", isDirectory |-> TRUE, contents |-> <<>>],
         [base |-> "README", ext |-> ".md", isDirectory |-> FALSE,
          contents |-> <<Other("readme")>>]>>
    \o (IF varLines = <<>> THEN <<>>
        ELSE <<[base |-> "terraform", ext |-> ".tfvars", isDirectory |-> FALSE,
                contents |-> varLines]>>)

\* terraform.tfvars: none, or assignments among lines that are none
VarFiles == { <<>>,
              << <<"">>, <<"size", Quoted("g1-small")>>, <<"# no assignment">>,
                 <<"project", Quoted("p1")>> >> }

Attributes(id, project, role, members) ==
    [id |-> id, project |-> project, role |-> role, members |-> members]
VMInstance(id) == [attributes |-> Attributes(id, "p1", "", <<>>)]
Resource(t, n, instances) == [type |-> t, name |-> n, instances |-> instances]

IdI == "projects/p/zones/z/instances/i"
IdJ == "projects/p/zones/z/instances/j"
IdK == "projects/p/zones/z/instances/k"

VMStates == {
    [resources |-> << Resource(VMType, "default", <<VMInstance(IdI)>>) >>],
    \* a resource of another type, and a resource with two instances, one of them
    \* the instance of another resource
    [resources |-> << Resource(VMType, "default", <<VMInstance(IdI)>>),
                      Resource("google_compute_disk", "disk", <<VMInstance(IdJ)>>),
                      Resource(VMType, "web", <<VMInstance(IdJ), VMInstance(IdI)>>) >>] }

VMRec(id, size, rid, etag) ==
    [instanceID |-> instanceIdPrefixToRemove \o id, size |-> size,
     recommendationID |-> rid, recommendationETAG |-> etag]
VMRecs == << VMRec(IdI, "n1-standard-2", "r1", "e1"),
             VMRec(IdJ, "e2-medium", "r2", "e2"),
             VMRec(IdK, "g1-small", "r3", "e3") >>

\* the batches of at most n recommendations of a listing, in its order
Batches(recs, n) ==
    {SelectSeq(recs, LAMBDA r : r \in picked) :
        picked \in {p \in SUBSET Range(recs) : Cardinality(p) \in 1..n}}

\* the members and roles of the bindings
UserA == "user:a"
AccountB == SAMember("acct1")
Editor == "roles/editor"
Viewer == "roles/viewer"

IAMBlocks == {
    \* two members, one per line
    << <<Res(IAMType, "editors")>>, <<Ws("2"), Project("p1")>>, <<Ws("2"), Role(Editor)>>,
       <<Ws("2"), MembersOpen>>, <<Ws("4"), Mem(UserA), Comma>>, <<Ws("4"), Mem(AccountB)>>,
       <<Ws("2"), RBracket>>, <<RBrace>>, <<>> >>,
    \* one member, a service account of the manifests; the project is a variable
    << <<Res(IAMType, "editors")>>, <<Ws("2"), Project(VarRef("project"))>>,
       <<Ws("2"), Role(Editor)>>, <<Ws("2"), MembersOpen>>,
       <<Ws("4"), Mem(SAMember(SARef("sa1")))>>, <<Ws("2"), RBracket>>, <<RBrace>> >>,
    \* one member, the list on one line
    << <<Res(IAMType, "admins")>>, <<Ws("2"), Project("p1")>>, <<Ws("2"), Role(Editor)>>,
       <<Ws("2"), MembersOpen, Ws("1"), Mem(UserA), Ws("1"), RBracket>>, <<RBrace>> >>,
    \* two members on one line
    << <<Res(IAMType, "admins")>>, <<Ws("2"), Project("p1")>>, <<Ws("2"), Role(Editor)>>,
       <<Ws("2"), MembersOpen, Ws("1"), Mem(UserA), Comma, Ws("1"), Mem(AccountB), Ws("1"),
         RBracket>>, <<RBrace>>, <<>> >>,
    \* the service account
    << <<Res(SAType, "sa1")>>, <<Ws("2"), AccountId("acct1")>>, <<RBrace>> >>,
    \* a comma after the last member
    << <<Res(IAMType, "editors")>>, <<Ws("2"), Project("p1")>>, <<Ws("2"), Role(Editor)>>,
       <<Ws("2"), MembersOpen>>, <<Ws("4"), Mem(UserA), Comma>>, <<Ws("2"), RBracket>>,
       <<RBrace>>, <<>> >> }

Binding(t, n, project, role, members) ==
    Resource(t, n, <<[attributes |-> Attributes("", project, role, members)]>>)

IAMStates == {
    [resources |-> << Binding(IAMType, "editors", "p1", Editor, <<UserA, AccountB>>),
                      Binding("google_storage_bucket_iam_binding", "bucket", "p1", Editor,
                              <<UserA, AccountB>>),
                      Binding(IAMType, "admins", "p1", Editor, <<UserA, AccountB>>),
                      Binding(IAMType, "others", "p2", Viewer, <<UserA>>) >>] }

IAMRec(project, member, role, add, rid, etag) ==
    [project |-> project, member |-> member, role |-> role, add |-> add,
     recommendationID |-> rid, recommendationETAG |-> etag]

\* the recommendations name the project as the recommendation source does: by
\* its number, or as the stub files do
ProjectOfRec(p, stub) == IF stub THEN p ELSE ProjectNumbers[p]
IAMRecs(stub) == << IAMRec(ProjectOfRec("p1", stub), UserA, Editor, "", "r1", "e1"),
                   IAMRec(ProjectOfRec("p1", stub), AccountB, Editor, Viewer, "r2", "e2"),
                   IAMRec(ProjectOfRec("p2", stub), UserA, Editor, "", "r3", "e3") >>

\* ------------------------------------------------------------ state
VARIABLES
    type,                    \* params.type of the request: "VM" or "IAM"
    isStub,                  \* Boolean(stub)
    tfState,                 \* the Terraform state of getTFState()
    recommendations,         \* the list the recommendation source returned
    disk,                    \* the directory /repo/<repoName> of the checkout
    pc,                      \* where the run stands
    resourceNames,           \* the matched resources
    originalFiles,           \* the files as they will be written
    tfFiles,                 \* the resolved view of the files
    previousFiles,           \* originalFiles as the latest iteration found it
    next,                    \* index of the next matched resource to apply
    recommendationsToClaim,  \* the {id, etag} list being returned
    destPath,                \* the destPath argument, "" when it is not given
    destDisk,                \* the directory at destPath
    calls,                   \* the calls made to git, GitHub, Firestore and the Recommender API
    db,                      \* the documents of applied_recommendations, by their id
    response,                \* what applyRecommendations answered
    ciResponse,              \* what ci answered
    ciPayload,               \* the payload ci was called with
    firstOutput,             \* the directory as a first pass left it, once a second pass runs
    unwritten,               \* the files whose fs.writeFile was rejected
    origin,                  \* what git clone delivers for the repository
    other                    \* a second applyRecommendations run: its repository and position

\* what lies outside the two edit functions
env == <<calls, db, response, ciResponse, ciPayload, firstOutput, unwritten>>

vars == <<type, isStub, tfState, recommendations, disk, pc, resourceNames,
          originalFiles, tfFiles, previousFiles, next, recommendationsToClaim,
          destPath, destDisk, origin, other, env>>

InitRun ==
    /\ resourceNames = <<>>
    /\ originalFiles = <<>>
    /\ tfFiles = <<>>
    /\ previousFiles = <<>>
    /\ next = 1
    /\ recommendationsToClaim = <<>>
    /\ origin = disk

\* no second run
Alone == [repoName |-> "", pc |-> "none"]

\* no call made, no document stored, no answer given
InitEnv ==
    /\ calls = <<>>
    /\ db = <<>>
    /\ response = "none"
    /\ ciResponse = "none"
    /\ ciPayload = "none"
    /\ firstOutput = <<>>
    /\ unwritten = {}
    /\ other = Alone

\* the callers of this repository give no destPath
NoDest ==
    /\ destPath = ""
    /\ destDisk = <<>>

\* a request for VM recommendations: the state, the listing and the checkout
InputVM ==
    /\ type = "VM"
    /\ isStub \in {FALSE}
    /\ tfState \in VMStates
    /\ recommendations \in Batches(VMRecs, MaxRecs)
    /\ \E manifest \in ManifestSets(VMBlocks, MaxBlocks, MaxFiles) \ {<<>>},
          varLines \in VarFiles :
          disk = Checkout(manifest, varLines)

InitVM == InputVM /\ pc = "start" /\ InitRun /\ NoDest /\ InitEnv

\* applyVMResizeRecommendations up to the call of findAndModifyInstances:
\* the state is matched; without a matched resource the empty list is returned
GetVMResources ==
    /\ pc = "start" /\ type = "VM"
    /\ resourceNames' = getVMResourcesByIdFromState(tfState, recommendations)
    /\ pc' = IF Len(resourceNames') > 0 THEN "read" ELSE "done"
    /\ UNCHANGED <<type, isStub, tfState, recommendations, disk, originalFiles, tfFiles,
                   previousFiles, next, recommendationsToClaim,
                   destPath, destDisk, origin, other, env>>

\* findAndModifyInstances, lines 300-301: the files are read and resolved
ReadInstances ==
    /\ pc = "read" /\ type = "VM"
    /\ originalFiles' = readAllTFFiles(disk, RepoPath)
    /\ tfFiles' = replaceVariableValuesInTFFiles(VarFileOf(disk), originalFiles')
    /\ previousFiles' = originalFiles'
    /\ next' = 1
    /\ pc' = "edit"
    /\ UNCHANGED <<type, isStub, tfState, recommendations, disk, resourceNames,
                   recommendationsToClaim,
                   destPath, destDisk, origin, other, env>>

\* findAndModifyInstances, lines 303-333: one iteration of resources.forEach
ModifyInstances ==
    /\ pc = "edit" /\ type = "VM" /\ next <= Len(resourceNames)
    /\ LET resource == resourceNames[next]
           results == [index \in DOMAIN tfFiles |->
                          ModifyInstanceInFile(tfFiles[index], originalFiles[index], resource)]
       IN /\ originalFiles' = [index \in DOMAIN tfFiles |-> results[index].file]
          /\ recommendationsToClaim' = recommendationsToClaim \o ClaimsOf(results, resource)
    /\ previousFiles' = originalFiles
    /\ next' = next + 1
    /\ UNCHANGED <<type, isStub, tfState, recommendations, disk, pc, resourceNames, tfFiles,
                   destPath, destDisk, origin, other, env>>

\* the write step handing the resolved view to the file system
WriteFiles_View ==
    /\ pc = "edit" /\ next > Len(resourceNames)
    /\ disk' = WriteAll(disk, tfFiles)
    /\ pc' = "done"
    /\ UNCHANGED <<type, isStub, tfState, recommendations, resourceNames, originalFiles,
                   tfFiles, previousFiles, next, recommendationsToClaim,
                   destPath, destDisk, origin, other, env>>

\* lines 335-342 and 559-566: every file is written and the list is returned
WriteFiles ==
    /\ pc = "edit" /\ next > Len(resourceNames)
    /\ disk' = WriteAll(disk, WrittenTo(RepoPath, originalFiles, RepoPath, destPath))
    /\ destDisk' = WriteAll(destDisk, WrittenTo(destPath, originalFiles, RepoPath, destPath))
    /\ pc' = "done"
    /\ UNCHANGED <<type, isStub, tfState, recommendations, resourceNames, originalFiles,
                   tfFiles, previousFiles, next, recommendationsToClaim, destPath,
                   origin, other, env>>

NextVM == GetVMResources \/ ReadInstances \/ ModifyInstances \/ WriteFiles

SpecVM == InitVM /\ [][NextVM]_vars

\* findAndModifyInstances called once more, on the files it wrote, with the same
\* matched resources
RunAgain ==
    /\ pc = "done" /\ type = "VM"
    /\ resourceNames # <<>> /\ firstOutput = <<>>
    /\ firstOutput' = disk
    /\ recommendationsToClaim' = <<>>
    /\ pc' = "read"
    /\ UNCHANGED <<type, isStub, tfState, recommendations, disk, resourceNames, originalFiles,
                   tfFiles, previousFiles, next, destPath, destDisk, origin, other, calls, db, response,
                   ciResponse, ciPayload, unwritten>>

\* the directory declares no resource twice, as Terraform requires of the
\* configuration the state was made from
DeclaredOnce(dir) ==
    \A k1, k2 \in DOMAIN dir :
       (~dir[k1].isDirectory /\ isTerraformFile(dir[k1])
           /\ ~dir[k2].isDirectory /\ isTerraformFile(dir[k2]))
       => \A i \in DOMAIN dir[k1].contents, j \in DOMAIN dir[k2].contents :
             (dir[k1].contents[i].k = "res" /\ dir[k2].contents[j] = dir[k1].contents[i])
             => (k1 = k2 /\ i = j)

InitVMTwice == InitVM /\ DeclaredOnce(disk)

SpecVMTwice == InitVMTwice /\ [][NextVM \/ RunAgain]_vars

\* a request for IAM recommendations
InputIAM ==
    /\ type = "IAM"
    /\ isStub \in BOOLEAN
    /\ tfState \in IAMStates
    /\ recommendations \in Batches(IAMRecs(isStub), MaxRecs)
    /\ \E manifest \in ManifestSets(IAMBlocks, MaxBlocks, MaxFiles) \ {<<>>},
          varLines \in VarFiles :
          disk = Checkout(manifest, varLines)

InitIAM == InputIAM /\ pc = "start" /\ InitRun /\ NoDest /\ InitEnv

\* applyIAMRecommendations up to the call of findAndModifyIAMRoleBindings
GetIAMBindings ==
    /\ pc = "start" /\ type = "IAM"
    /\ resourceNames' = getIAMBindingsFromState(tfState, recommendations, isStub)
    /\ LET lookups == ProjectLookups(ProjectsInOrder(tfState), isStub, {})
       IN calls' = calls \o [k \in DOMAIN lookups |->
                                [op |-> "getProjectNumberFromProjectID", arg |-> lookups[k],
                                 ok |-> TRUE]]
    /\ pc' = IF Len(resourceNames') > 0 THEN "read" ELSE "done"
    /\ UNCHANGED <<type, isStub, tfState, recommendations, disk, originalFiles, tfFiles,
                   previousFiles, next, recommendationsToClaim,
                   destPath, destDisk, origin, other,
                   db, response, ciResponse, ciPayload, firstOutput, unwritten>>

\* findAndModifyIAMRoleBindings, lines 489-491
ReadBindings ==
    /\ pc = "read" /\ type = "IAM"
    /\ originalFiles' = readAllTFFiles(disk, RepoPath)
    /\ tfFiles' = replaceServiceAccountValues(
                      replaceVariableValuesInTFFiles(VarFileOf(disk), originalFiles'))
    /\ previousFiles' = originalFiles'
    /\ next' = 1
    /\ pc' = "edit"
    /\ UNCHANGED <<type, isStub, tfState, recommendations, disk, resourceNames,
                   recommendationsToClaim,
                   destPath, destDisk, origin, other, env>>

\* claims pushed only where a member line was commented out
BindingClaimsOf_LineOnly(results, resource) ==
    LET hit(k) == results[k].branch = "line"
    IN [k \in DOMAIN SelectSeq([n \in DOMAIN results |-> n], hit) |-> Claim(resource)]

\* the {id, etag} pushed while one resource is mapped over the files
BindingClaimsOf(results, resource) ==
    LET hit(k) == results[k].branch # "none"
    IN [k \in DOMAIN SelectSeq([n \in DOMAIN results |-> n], hit) |-> Claim(resource)]

\* the iteration going on to the next resource when a list cannot be parsed
ModifyIAMRoleBindings_SkipsUnparsed ==
    /\ pc = "edit" /\ type = "IAM" /\ next <= Len(resourceNames)
    /\ LET resource == resourceNames[next]
           results == [index \in DOMAIN tfFiles |->
                          ModifyBindingInFile(tfFiles[index], originalFiles[index], resource)]
       IN IF \E index \in DOMAIN results : results[index].branch = "throw"
          THEN /\ next' = next + 1
               /\ previousFiles' = originalFiles
               /\ UNCHANGED <<originalFiles, recommendationsToClaim, pc>>
          ELSE /\ originalFiles' = [index \in DOMAIN tfFiles |-> results[index].file]
               /\ recommendationsToClaim' =
                      recommendationsToClaim \o BindingClaimsOf(results, resource)
               /\ previousFiles' = originalFiles
               /\ next' = next + 1
               /\ pc' = pc
    /\ UNCHANGED <<type, isStub, tfState, recommendations, disk, resourceNames, tfFiles,
                   destPath, destDisk, origin, other, env>>

\* findAndModifyIAMRoleBindings, lines 493-557: one iteration of resources.forEach;
\* a SyntaxError of JSON.parse rejects the whole call
ModifyIAMRoleBindings ==
    /\ pc = "edit" /\ type = "IAM" /\ next <= Len(resourceNames)
    /\ LET resource == resourceNames[next]
           results == [index \in DOMAIN tfFiles |->
                          ModifyBindingInFile(tfFiles[index], originalFiles[index], resource)]
       IN IF \E index \in DOMAIN results : results[index].branch = "throw"
          THEN /\ pc' = "failed"
               /\ UNCHANGED <<originalFiles, recommendationsToClaim, previousFiles, next>>
          ELSE /\ originalFiles' = [index \in DOMAIN tfFiles |-> results[index].file]
               /\ recommendationsToClaim' =
                      recommendationsToClaim \o BindingClaimsOf(results, resource)
               /\ previousFiles' = originalFiles
               /\ next' = next + 1
               /\ pc' = pc
    /\ UNCHANGED <<type, isStub, tfState, recommendations, disk, resourceNames, tfFiles,
                   destPath, destDisk, origin, other, env>>

NextIAM == GetIAMBindings \/ ReadBindings \/ ModifyIAMRoleBindings \/ WriteFiles

SpecIAM == InitIAM /\ [][NextIAM]_vars

Init == InitVM \/ InitIAM

Next == GetVMResources \/ ReadInstances \/ ModifyInstances
            \/ GetIAMBindings \/ ReadBindings \/ ModifyIAMRoleBindings \/ WriteFiles

Spec == Init /\ [][Next]_vars

\* ------------------------------------------------------------ a destination
\* findAndModifyInstances / findAndModifyIAMRoleBindings called with or without
\* a destPath; the destination is empty or holds a file of an earlier run
DestPaths == {"", "/out"}
DestDirs(dest) ==
    IF dest = "" THEN {<<>>}
    ELSE {<<>>, <<[base |-> "main", ext |-> ".tf", isDirectory |-> FALSE,
                   contents |-> <<Other("earlier")>>]>>}

InitDest ==
    /\ InputVM \/ InputIAM
    /\ pc = "start"
    /\ InitRun
    /\ destPath \in DestPaths
    /\ destDisk \in DestDirs(destPath)
    /\ InitEnv

SpecDest == InitDest /\ [][Next]_vars

\* ------------------------------------------------------------ the routes
MaxParents == 2

\* a call made to git, GitHub, Firestore or the Recommender API: what was called,
\* with what, and whether it succeeded
Call(op, arg, ok) == [op |-> op, arg |-> arg, ok |-> ok]

\* commit.commit of sourceControl.commitChanges, and the commits GitHub knows:
\* one of an earlier run, the one of this run, one made by hand
NewCommit == "c1"
Shas == <<"c0-4f2a", "c1-9be0", "c2-77d1">>
\* parent.sha.substr(0, 7), the identifiers shortened as the commits are
Substr7(sha) == CASE sha = "c0-4f2a" -> "c0"
                  [] sha = "c1-9be0" -> "c1"
                  [] OTHER -> "c2"

\* `${repoName}-${commitID}`
UniqueID(repoName, commitID) == repoName \o "-" \o commitID

\* the document written by document.set
Document(repoName, commitID, recs, stub) ==
    [commitID |-> commitID, repoName |-> repoName,
     recommendationIDs |-> [k \in DOMAIN recs |-> recs[k].id],
     recommendationEtags |-> [k \in DOMAIN recs |-> recs[k].etag],
     stub |-> stub, status |-> "Pull Request Created"]

\* db.createCommit when the write succeeds
createCommit(docs, repoName, commitID, recs, stub) ==
    [u \in DOMAIN docs \cup {UniqueID(repoName, commitID)} |->
        IF u = UniqueID(repoName, commitID) THEN Document(repoName, commitID, recs, stub)
        ELSE docs[u]]

\* every document answered, the ones stored with stub = true as well
getCommit_AnyDocument(docs, repoName, commitID, ok) ==
    IF ok /\ UniqueID(repoName, commitID) \in DOMAIN docs
    THEN docs[UniqueID(repoName, commitID)].recommendationIDs
    ELSE <<>>

\* db.getCommit: the recommendation IDs of the document, [] when there is none,
\* when it was stored with stub = true, or when the read fails
getCommit(docs, repoName, commitID, ok) ==
    IF ok /\ UniqueID(repoName, commitID) \in DOMAIN docs
          /\ ~docs[UniqueID(repoName, commitID)].stub
    THEN docs[UniqueID(repoName, commitID)].recommendationIDs
    ELSE <<>>

\* the documents of an earlier run that was no stub run
EarlierDocuments ==
    createCommit(<<>>, RepoName, "c0", <<[id |-> "r0", etag |-> "e0"]>>, FALSE)

\* the manifests of the requests: declarations with a literal machine type, and
\* the bindings named "admins"
RouteVMBlocks == {b \in VMBlocks : b[1][1].a = VMType /\ MT("g1-small") \in Range(Flatten(b))}
\* the declarations of "admins", the declaration of "editors" with a member on
\* each line, and a declaration of "admins" with a comma after the last member
RouteIAMBlocks ==
    {b \in IAMBlocks : b[1][1] = Res(IAMType, "admins")}
    \cup {b \in IAMBlocks : b[1][1] = Res(IAMType, "editors") /\ Len(b) = 9
                              /\ b[2] = <<Ws("2"), Project("p1")>>}
    \cup {<< <<Res(IAMType, "admins")>>, <<Ws("2"), Project("p1")>>, <<Ws("2"), Role(Editor)>>,
             <<Ws("2"), MembersOpen>>, <<Ws("4"), Mem(UserA), Comma>>,
             <<Ws("4"), Mem(AccountB), Comma>>, <<Ws("2"), RBracket>>, <<RBrace>>, <<>> >>}

\* a request on /recommendation/:type with its body, what the recommendation
\* source lists for it, the repository to clone and the documents stored
InputRoute ==
    /\ \/ /\ type \in {"VM", "DNS"}
          /\ isStub \in BOOLEAN
          /\ tfState \in VMStates
          /\ recommendations \in Batches(VMRecs, MaxRecs) \cup {<<>>}
          /\ \E manifest \in ManifestSets(RouteVMBlocks, MaxBlocks, MaxFiles) \ {<<>>} :
                disk = Checkout(manifest, <<>>)
       \/ /\ type = "IAM"
          /\ isStub \in BOOLEAN
          /\ tfState \in IAMStates
          /\ recommendations \in Batches(IAMRecs(isStub), MaxRecs) \cup {<<>>}
          /\ \E manifest \in ManifestSets(RouteIAMBlocks, MaxBlocks, MaxFiles) \ {<<>>} :
                disk = Checkout(manifest, <<>>)
    /\ pc = "request"
    /\ InitRun
    /\ NoDest
    /\ calls = <<>>
    /\ db = EarlierDocuments
    /\ response = "none"
    /\ ciResponse = "none"
    /\ ciPayload = "none"
    /\ firstOutput = <<>>
    /\ unwritten = {}

InitRoute == InputRoute /\ other = Alone

run == <<type, isStub, tfState, recommendations, disk, resourceNames, originalFiles, tfFiles,
         previousFiles, next, recommendationsToClaim, destPath, destDisk, origin, other,
         firstOutput,
         unwritten>>

\* the route going on to the clone with an empty listing
ListRecommendations_NoEmptyCheck ==
    /\ pc = "request"
    /\ IF type \notin {"VM", "IAM"}
       THEN /\ response' = "500"
            /\ pc' = "responded"
            /\ UNCHANGED calls
       ELSE \E ok \in BOOLEAN :
               /\ calls' = Append(calls, Call("listRecommendations", type, ok))
               /\ IF ~ok THEN pc' = "caught" /\ UNCHANGED response
                  ELSE pc' = "clone" /\ UNCHANGED response
    /\ UNCHANGED <<run, db, ciResponse, ciPayload>>

\* applyRecommendations, lines 31-52: the type is looked at and the
\* recommendations are listed
ListRecommendations ==
    /\ pc = "request"
    /\ IF type \notin {"VM", "IAM"}
       THEN /\ response' = "500"
            /\ pc' = "responded"
            /\ UNCHANGED calls
       ELSE \E ok \in BOOLEAN :
               /\ calls' = Append(calls, Call("listRecommendations", type, ok))
               /\ IF ~ok THEN pc' = "caught" /\ UNCHANGED response
                  ELSE IF Len(recommendations) = 0
                  THEN response' = "200" /\ pc' = "responded"
                  ELSE pc' = "clone" /\ UNCHANGED response
    /\ UNCHANGED <<run, db, ciResponse, ciPayload>>

\* the directory after fs.emptyDir
EmptyDir == <<>>

\* line 54 with sourcecontrol.js 34-46: cloneRepository empties /repo/<repoName>
\* and clones into it; when it fails the directory is empty or filled
CloneRepository ==
    /\ pc = "clone"
    /\ \E ok \in BOOLEAN :
          /\ calls' = Append(calls, Call("cloneRepository", RepoName, ok))
          /\ pc' = IF ok THEN "start" ELSE "caught"
          /\ IF ok THEN disk' = origin ELSE disk' \in {EmptyDir, origin}
    /\ UNCHANGED <<type, isStub, tfState, recommendations, resourceNames, originalFiles,
                   tfFiles, previousFiles, next, recommendationsToClaim, destPath, destDisk,
                   origin, other, firstOutput, unwritten, db, response, ciResponse,
                   ciPayload>>

\* sourcecontrol.js, lines 34-46, in a second run: fs.emptyDir(baseDIR) empties
\* /repo/<repoName> ...
OtherEmptyDir ==
    /\ other.pc = "request"
    /\ other' = [other EXCEPT !.pc = "emptied"]
    /\ disk' = IF other.repoName = RepoName THEN EmptyDir ELSE disk
    /\ UNCHANGED <<type, isStub, tfState, recommendations, pc, resourceNames, originalFiles,
                   tfFiles, previousFiles, next, recommendationsToClaim, destPath, destDisk,
                   origin, env>>

\* ... and, after the await, git.clone fills it
OtherClone ==
    /\ other.pc = "emptied"
    /\ other' = [other EXCEPT !.pc = "cloned"]
    /\ disk' = IF other.repoName = RepoName THEN origin ELSE disk
    /\ UNCHANGED <<type, isStub, tfState, recommendations, pc, resourceNames, originalFiles,
                   tfFiles, previousFiles, next, recommendationsToClaim, destPath, destDisk,
                   origin, env>>

\* the write step returning the list although a write was rejected
WriteFilesRejected_Returns ==
    /\ pc = "edit" /\ next > Len(resourceNames)
    /\ \E rejected \in SUBSET DOMAIN originalFiles \ {{}} :
          LET IsWritten(k) == k \notin rejected
              written == SelectSeq([k \in DOMAIN originalFiles |-> k], IsWritten)
          IN /\ disk' = WriteAll(disk, [k \in DOMAIN written |-> originalFiles[written[k]]])
             /\ unwritten' = rejected
    /\ pc' = "done"
    /\ UNCHANGED <<type, isStub, tfState, recommendations, resourceNames, originalFiles,
                   tfFiles, previousFiles, next, recommendationsToClaim, destPath, destDisk,
                   origin, other,
                   calls, db, response, ciResponse, ciPayload, firstOutput>>

\* lines 335-342 and 559-566 when fs.writeFile is rejected for some files: the
\* other files are written, Promise.all rejects and the function raises
WriteFilesRejected ==
    /\ pc = "edit" /\ next > Len(resourceNames)
    /\ \E rejected \in SUBSET DOMAIN originalFiles \ {{}} :
          LET IsWritten(k) == k \notin rejected
              written == SelectSeq([k \in DOMAIN originalFiles |-> k], IsWritten)
          IN /\ disk' = WriteAll(disk, [k \in DOMAIN written |-> originalFiles[written[k]]])
             /\ unwritten' = rejected
    /\ pc' = "failed"
    /\ UNCHANGED <<type, isStub, tfState, recommendations, resourceNames, originalFiles,
                   tfFiles, previousFiles, next, recommendationsToClaim, destPath, destDisk,
                   origin, other,
                   calls, db, response, ciResponse, ciPayload, firstOutput>>

\* the commit made whatever the edit function returned
CommitChanges_Always ==
    /\ pc = "done"
    /\ \E ok \in BOOLEAN :
          /\ calls' = Append(calls, Call("commitChanges", NewCommit, ok))
          /\ pc' = IF ok THEN "committed" ELSE "caught"
    /\ UNCHANGED <<run, db, response, ciResponse, ciPayload>>

\* lines 58-63: with a claimed recommendation, the changes are committed
CommitChanges ==
    /\ pc = "done" /\ Len(recommendationsToClaim) > 0
    /\ \E ok \in BOOLEAN :
          /\ calls' = Append(calls, Call("commitChanges", NewCommit, ok))
          /\ pc' = IF ok THEN "committed" ELSE "caught"
    /\ UNCHANGED <<run, db, response, ciResponse, ciPayload>>

\* line 65: the pull request
CreatePullRequest ==
    /\ pc = "committed"
    /\ \E ok \in BOOLEAN :
          /\ calls' = Append(calls, Call("createPullRequest", NewCommit, ok))
          /\ pc' = IF ok THEN "pulled" ELSE "caught"
    /\ UNCHANGED <<run, db, response, ciResponse, ciPayload>>

\* line 67 with db.js 37-54: the document is stored; a failure of Firestore is
\* logged by createCommit and not raised
CreateCommit ==
    /\ pc = "pulled"
    /\ \E ok \in BOOLEAN :
          /\ calls' = Append(calls, Call("createCommit", recommendationsToClaim, ok))
          /\ db' = IF ok THEN createCommit(db, RepoName, NewCommit, recommendationsToClaim, isStub)
                   ELSE db
    /\ pc' = IF isStub THEN "respond" ELSE "recorded"
    /\ UNCHANGED <<run, response, ciResponse, ciPayload>>

\* lines 69-71: without stub, the recommendations are marked claimed
MarkClaimed ==
    /\ pc = "recorded"
    /\ \E ok \in BOOLEAN :
          /\ calls' = Append(calls, Call("markClaimed", recommendationsToClaim, ok))
          /\ pc' = IF ok THEN "respond" ELSE "caught"
    /\ UNCHANGED <<run, db, response, ciResponse, ciPayload>>

\* line 75: res.sendStatus(201)
Respond ==
    /\ \/ pc = "respond"
       \/ pc = "done" /\ Len(recommendationsToClaim) = 0
    /\ response' = "201"
    /\ pc' = "responded"
    /\ UNCHANGED <<run, calls, db, ciResponse, ciPayload>>

\* lines 76-79: whatever was raised is answered with 500
Catch ==
    /\ pc \in {"caught", "failed"}
    /\ response' = "500"
    /\ pc' = "responded"
    /\ UNCHANGED <<run, calls, db, ciResponse, ciPayload>>

\* the body of a Pub/Sub push: data that is no JSON, the JSON null, or a build
\* with its status, with or without substitutions
Payloads ==
    {[json |-> FALSE, object |-> FALSE, status |-> "", substitutions |-> FALSE],
     [json |-> TRUE, object |-> FALSE, status |-> "", substitutions |-> FALSE]}
    \cup [json : {TRUE}, object : {TRUE}, status : {"SUCCESS", "FAILURE"},
          substitutions : BOOLEAN]

\* what GitHub answers for the built commit: at most MaxParents parents
ParentLists == {<<>>} \cup Batches(Shas, MaxParents)

\* ci up to the Recommender API: the parents, and the recommendation IDs of
\* their documents, flattened
ParentCommits(parents) == [k \in DOMAIN parents |-> Substr7(parents[k])]
\* the document of the first parent only
RecommendationIDs_FirstParent(docs, parentCommits, dbOk) ==
    IF parentCommits = <<>> THEN <<>> ELSE getCommit(docs, RepoName, parentCommits[1], dbOk)

RecommendationIDs(docs, parentCommits, dbOk) ==
    Flatten([k \in DOMAIN parentCommits |-> getCommit(docs, RepoName, parentCommits[k], dbOk)])

\* recommender.getRecommendations and lines 127-130: name and etag as the
\* Recommender API holds them now
CurrentEtag(id) == "etag-of-" \o id
Recommendations(ids) == [k \in DOMAIN ids |-> [id |-> ids[k], etag |-> CurrentEtag(ids[k])]]

\* the route /ci, lines 91-146, called after the request was answered
Ci ==
    /\ pc = "responded" /\ ciResponse = "none"
    /\ \E payload \in Payloads :
          /\ ciPayload' = payload
          /\ IF ~payload.json
             THEN \* JSON.parse throws outside the try: the request is never answered
                  ciResponse' = "unanswered" /\ UNCHANGED calls
             ELSE IF ~payload.object
             THEN \* payload.status of null raises inside the try
                  ciResponse' = "500" /\ UNCHANGED calls
             ELSE IF ~(payload.status = "SUCCESS" /\ payload.substitutions)
             THEN ciResponse' = "200" /\ UNCHANGED calls
             ELSE \E parents \in ParentLists, gitOk \in BOOLEAN, dbOk \in BOOLEAN,
                     getOk \in BOOLEAN, setOk \in BOOLEAN :
                     LET parentCommits == ParentCommits(parents)
                         ids == RecommendationIDs(db, parentCommits, dbOk)
                         lookups == [k \in DOMAIN parentCommits |->
                                        Call("getCommit", parentCommits[k], dbOk)]
                     IN IF ~gitOk
                        THEN /\ calls' = Append(calls, Call("getParentCommits", "built", FALSE))
                             /\ ciResponse' = "500"
                        ELSE IF ~getOk
                        THEN /\ calls' = calls \o <<Call("getParentCommits", "built", TRUE)>>
                                            \o lookups \o <<Call("getRecommendations", ids, FALSE)>>
                             /\ ciResponse' = "500"
                        ELSE /\ calls' = calls \o <<Call("getParentCommits", "built", TRUE)>>
                                            \o lookups
                                            \o <<Call("getRecommendations", ids, TRUE),
                                                 Call("markSucceeded", Recommendations(ids), setOk)>>
                             /\ ciResponse' = IF setOk THEN "201" ELSE "500"
    /\ UNCHANGED <<run, pc, db, response>>

NextRoute ==
    \/ ListRecommendations \/ CloneRepository
    \/ GetVMResources \/ ReadInstances \/ ModifyInstances
    \/ GetIAMBindings \/ ReadBindings \/ ModifyIAMRoleBindings
    \/ WriteFiles \/ WriteFilesRejected
    \/ CommitChanges \/ CreatePullRequest \/ CreateCommit \/ MarkClaimed
    \/ Respond \/ Catch \/ Ci

SpecRoute == InitRoute /\ [][NextRoute]_vars

\* ------------------------------------------------------------ references over lines
\* Manifests in which a reference to a variable is written over three lines
LineBlocks == {
    << <<Res(VMType, "default")>>, <<Ws("2"), Other("project ="), RefOpen>>,
       <<Ws("4"), RefName("project")>>, <<Ws("2"), RefClose>>,
       <<Ws("2"), MT("g1-small")>>, <<RBrace>>, <<>> >>,
    << <<Res(VMType, "default")>>, <<Ws("2"), MT(VarRef("size"))>>, <<RBrace>>, <<>> >>,
    << <<Res(VMType, "web")>>, <<Ws("2"), MT("g1-small")>>, <<RBrace>>, <<>> >> }

InitLines ==
    /\ type = "VM"
    /\ isStub = FALSE
    /\ tfState \in VMStates
    /\ recommendations \in Batches(VMRecs, MaxRecs)
    /\ \E manifest \in ManifestSets(LineBlocks, MaxBlocks, MaxFiles) \ {<<>>},
          varLines \in VarFiles :
          disk = Checkout(manifest, varLines)
    /\ pc = "start" /\ InitRun /\ NoDest /\ InitEnv

SpecLines == InitLines /\ [][NextVM]_vars

\* ------------------------------------------------------------ service accounts
\* Manifests for replaceServiceAccountValues: service accounts declared alone
\* or one after the other, and bindings whose members refer to them
SABlocks == {
    << <<Res(SAType, "sa1")>>, <<Ws("2"), AccountId("acct1")>>, <<RBrace>> >>,
    << <<Res(SAType, "sa2")>>, <<Ws("2"), AccountId("acct2")>>, <<RBrace>> >>,
    << <<Res(SAType, "sa1")>>, <<Ws("2"), AccountId("acct1")>>, <<RBrace>>, <<>>,
       <<Res(SAType, "sa2")>>, <<Ws("2"), AccountId("acct2")>>, <<RBrace>> >>,
    << <<Res(IAMType, "editors")>>, <<Ws("2"), Project("p1")>>, <<Ws("2"), Role(Editor)>>,
       <<Ws("2"), MembersOpen>>, <<Ws("4"), Mem(UserA), Comma>>,
       <<Ws("4"), Mem(SAMember(SARef("sa1")))>>, <<Ws("2"), RBracket>>, <<RBrace>> >>,
    << <<Res(IAMType, "admins")>>, <<Ws("2"), Project("p1")>>, <<Ws("2"), Role(Editor)>>,
       <<Ws("2"), MembersOpen>>, <<Ws("4"), Mem(UserA), Comma>>,
       <<Ws("4"), Mem(SAMember(SARef("sa2")))>>, <<Ws("2"), RBracket>>, <<RBrace>> >> }

InitSA ==
    /\ type = "IAM"
    /\ isStub \in BOOLEAN
    /\ tfState \in IAMStates
    /\ recommendations \in Batches(IAMRecs(isStub), MaxRecs)
    /\ \E manifest \in ManifestSets(SABlocks, MaxBlocks, MaxFiles) \ {<<>>} :
          disk = Checkout(manifest, <<>>)
    /\ pc = "start" /\ InitRun /\ NoDest /\ InitEnv

SpecSA == InitSA /\ [][NextIAM]_vars

\* ------------------------------------------------------------ two runs
\* A request with one recommendation served while a second request is served, for the same
\* repository or for another one; the second run is followed through its
\* cloneRepository, whose awaits let the steps of the first run in between.
OtherRepoName == "iac2"

InitConcurrent ==
    /\ InputRoute
    /\ type \in {"VM", "IAM"} /\ ~isStub /\ Len(recommendations) = 1
    /\ other \in {[repoName |-> r, pc |-> "request"] : r \in {RepoName, OtherRepoName}}

NextConcurrent == NextRoute \/ OtherEmptyDir \/ OtherClone

SpecConcurrent == InitConcurrent /\ [][NextConcurrent]_vars

\* ------------------------------------------------------------ properties
\* the 1-based line on which the token at index pos of text lies
LineOf(text, pos) == 1 + Cardinality({i \in 1..(pos - 1) : text[i] = NL})

\* the indexes of the declaration that starts at index i: up to the next
\* declaration or the end of the text
Segment(text, i) ==
    {j \in i..Len(text) : \A k \in (i + 1)..j : text[k].k # "res"}

\* the <<file, index>> of the occurrences of the token tok in the files
Places(files, tok) ==
    UNION {{<<f, i>> : i \in {j \in DOMAIN files[f].contents : files[f].contents[j] = tok}} :
              f \in DOMAIN files}

\* the edits finished (all resources applied), the files written or about to be
Edited == pc \in {"edit", "done"} /\ next > Len(resourceNames)

\* the files differ at most on line n of file f, which reads `line` in `after`
OnlyLineChanged(before, after, f, n, line) ==
    /\ DOMAIN after = DOMAIN before
    /\ \A g \in DOMAIN before :
          /\ after[g].path = before[g].path
          /\ Len(SplitNL(after[g].contents)) = Len(SplitNL(before[g].contents))
          /\ \A k \in DOMAIN SplitNL(before[g].contents) :
                IF g = f /\ k = n
                THEN SplitNL(after[g].contents)[k] = line
                ELSE SplitNL(after[g].contents)[k] = SplitNL(before[g].contents)[k]

\* the files hold exactly one declaration of the compute instance `name`, and
\* that declaration holds exactly one machine_type assignment
OneAssignment(files, name) ==
    LET decls == Places(files, Res(VMType, name))
    IN /\ Cardinality(decls) = 1
       /\ LET d == CHOOSE d \in decls : TRUE
              text == files[d[1]].contents
          IN Cardinality({j \in Segment(text, d[2]) : text[j].k = "mt"}) = 1

\* the <<file, line>> of that assignment
MachineTypePlace(files, name) ==
    LET d == CHOOSE d \in Places(files, Res(VMType, name)) : TRUE
        text == files[d[1]].contents
        j == CHOOSE j \in Segment(text, d[2]) : text[j].k = "mt"
    IN <<d[1], LineOf(text, j)>>

\* ... and the value assigned is a literal: a value of [\w -]+
OneMachineType(files, name) ==
    /\ OneAssignment(files, name)
    /\ LET place == MachineTypePlace(files, name)
           line == SplitNL(files[place[1]].contents)[place[2]]
       IN \A i \in DOMAIN line : line[i].k = "mt" => IsWord(line[i].a)

\* the <<file, line>> at which two lists of files differ
ChangedLines(before, after) ==
    UNION {{<<f, k>> : k \in {n \in DOMAIN SplitNL(before[f].contents)
                                    \cup DOMAIN SplitNL(after[f].contents) :
                 \/ n \notin DOMAIN SplitNL(before[f].contents)
                 \/ n \notin DOMAIN SplitNL(after[f].contents)
                 \/ SplitNL(before[f].contents)[n] # SplitNL(after[f].contents)[n]}} :
              f \in DOMAIN before}

StrippedInstanceID(r) ==
    CHOOSE t \in InstanceIds : r.instanceID = instanceIdPrefixToRemove \o t

\* the <<resource, instance>> of the state that recommendation r pertains to
VMHolders(r) ==
    UNION {{<<k, n>> : n \in {j \in DOMAIN tfState.resources[k].instances :
                                 /\ tfState.resources[k].type = VMType
                                 /\ tfState.resources[k].instances[j].attributes.id
                                        = StrippedInstanceID(r)}} :
              k \in DOMAIN tfState.resources}

\* C9: getVMResourcesByIdFromState returns a matched resource for recommendation
\* r if and only if the state holds a google_compute_instance resource with an
\* instance whose id equals r.instanceID without the prefix; every result is a
\* recommendation of the batch, all fields kept, plus tfResourceName, the name of
\* such a resource.
C9_VMMatch ==
    (type = "VM" /\ pc # "start")
    => /\ \A r \in Range(recommendations) :
             (\E m \in Range(resourceNames) : [f \in DOMAIN r |-> m[f]] = r)
                 <=> VMHolders(r) # {}
       /\ \A m \in Range(resourceNames) :
             \E r \in Range(recommendations) :
                 /\ DOMAIN m = DOMAIN r \cup {"tfResourceName"}
                 /\ [f \in DOMAIN r |-> m[f]] = r
                 /\ \E h \in VMHolders(r) : m.tfResourceName = tfState.resources[h[1]].name

\* C9 witness: a batch of which one recommendation is matched and one is not
C9_Witness ==
    /\ type = "VM" /\ pc # "start"
    /\ \E r \in Range(recommendations) : VMHolders(r) = {}
    /\ \E m \in Range(resourceNames) : m.tfResourceName = "web"

\* the state snapshot, the recommendation and the claimed list of the example
ExampleState == [resources |-> << Resource(VMType, "default", <<VMInstance(IdI)>>) >>]
ExampleRecommendation == VMRec(IdI, "n1-standard-2", "r1", "e1")

\* the files hold one declaration of the compute instance "default", with the
\* line machine_type = "g1-small" and no other machine type
ExampleManifest(files) ==
    /\ OneMachineType(files, "default")
    /\ LET place == MachineTypePlace(files, "default")
       IN \E i \in DOMAIN SplitNL(files[place[1]].contents)[place[2]] :
             SplitNL(files[place[1]].contents)[place[2]][i] = MT("g1-small")

FoundIn(resource) ==
    {f \in DOMAIN tfFiles :
        IF type = "VM" THEN FindInstance(tfFiles[f].contents, resource.tfResourceName).found
        ELSE FindBinding(tfFiles[f].contents, resource).found}

\* n times the same element
Times(n, x) == [k \in 1..n |-> x]

\* C3: the returned list holds only {id, etag} pairs of input recommendations,
\* and every input recommendation at most once.
C3_ClaimedOnce ==
    pc = "done"
    => /\ \A c \in Range(recommendationsToClaim) :
             \E r \in Range(recommendations) :
                 c = [id |-> r.recommendationID, etag |-> r.recommendationETAG]
       /\ \A x, y \in DOMAIN recommendationsToClaim :
             x # y => recommendationsToClaim[x] # recommendationsToClaim[y]

\* C4: the returned list holds the {id, etag} of a matched resource once per file
\* in which its declaration was found, whatever the branch, and nothing else; a
\* resource whose declaration is found in no file leaves every file as it was,
\* and the resources after it are applied.
C4_ClaimedIffFound ==
    pc \in {"edit", "done"}
    => /\ recommendationsToClaim =
             Flatten([k \in 1..(next - 1) |->
                         Times(Cardinality(FoundIn(resourceNames[k])), Claim(resourceNames[k]))])
       /\ (next > 1 /\ FoundIn(resourceNames[next - 1]) = {}) => originalFiles = previousFiles
       /\ pc = "done" => next = Len(resourceNames) + 1

\* C4 witness: an IAM run has returned; one resource was skipped, a later one
\* was found and its whole block commented out
C4_Witness ==
    /\ type = "IAM" /\ pc = "done"
    /\ \E k \in DOMAIN resourceNames :
          /\ FoundIn(resourceNames[k]) = {}
          /\ \E n \in (k + 1)..Len(resourceNames) : FoundIn(resourceNames[n]) # {}
    /\ \E f \in DOMAIN originalFiles :
          Len(SplitNL(originalFiles[f].contents)) > Len(SplitNL(tfFiles[f].contents))

\* the matched resource the last iteration of the loop applied
LastApplied == resourceNames[next - 1]

\* an iteration of findAndModifyIAMRoleBindings has run and did not throw
BindingApplied == type = "IAM" /\ pc \in {"edit", "done"} /\ next > 1

\* f is the one file whose resolved view holds the declaration of the resource:
\* the project, the role and the list with the member are found, all of them
\* inside the declaration named resourceName
DeclaredIn(resource, f) ==
    /\ FoundIn(resource) = {f}
    /\ LET text == tfFiles[f].contents
           b == FindBinding(text, resource)
       IN b.end \in Segment(text, b.start)

\* the members the declaration lists
DeclaredMembers(resource, f) ==
    LET text == tfFiles[f].contents
        b == FindBinding(text, resource)
    IN {text[j].a : j \in {i \in b.open..b.close : text[i].k = "mem"}}

\* the line of the resolved view on which the member stands in the list
MemberLine(resource, f) ==
    LET text == tfFiles[f].contents
        b == FindBinding(text, resource)
        at == {i \in b.open..b.close : text[i] = Mem(resource.member)}
    IN LineOf(text, CHOOSE i \in at : \A j \in at : i <= j)

\* the first and the last line of the declaration: the line of the keyword
\* `resource` and the line of the closing brace
BlockLines(resource, f) ==
    LET text == tfFiles[f].contents
        b == FindBinding(text, resource)
    IN <<LineOf(text, b.start), LineOf(text, b.end)>>

\* lines with '/* ' put before line s and ' */' after line e
CommentDelimited(lines, s, e) ==
    [k \in DOMAIN lines |->
        (IF k = s THEN <<CommentOpen>> ELSE <<>>) \o lines[k]
            \o (IF k = e THEN <<CommentClose>> ELSE <<>>)]

\* every file but f is as it was
OthersUnchanged(before, after, f) ==
    /\ DOMAIN after = DOMAIN before
    /\ \A g \in DOMAIN before : g # f => after[g] = before[g]

\* C5: when the member list of the declaration of a matched resource holds a
\* member besides the removed one, the iteration puts comment markers on exactly
\* one line, the line on which the removed member stands; every other line of
\* the file and every other file stay as they were, and no line is appended.
C5_MemberLineCommented ==
    BindingApplied
    => \A f \in DOMAIN tfFiles :
          (DeclaredIn(LastApplied, f) /\ DeclaredMembers(LastApplied, f) \ {LastApplied.member} # {})
          => LET n == MemberLine(LastApplied, f)
             IN OnlyLineChanged(previousFiles, originalFiles, f, n,
                                <<CommentOpen>> \o SplitNL(previousFiles[f].contents)[n]
                                    \o <<CommentClose>>)

\* C5 witness: the member removed stood on a line of its own in a list of two
C5_Witness ==
    /\ BindingApplied
    /\ \E f \in DOMAIN tfFiles :
          /\ DeclaredIn(LastApplied, f)
          /\ Cardinality(DeclaredMembers(LastApplied, f)) = 2
          /\ LET n == MemberLine(LastApplied, f)
             IN /\ n > BlockLines(LastApplied, f)[1]
                /\ Head(SplitNL(originalFiles[f].contents)[n]) = CommentOpen
                /\ Head(SplitNL(previousFiles[f].contents)[n]) # CommentOpen

\* C6: when the recommendation has no add and the member list of the declaration
\* holds only the member, the iteration comment-delimits exactly the
\* declaration: '/* ' before the line of `resource`, ' */' after the line of the
\* closing brace, no line appended, every other line and file as it was.
C6_BlockCommented ==
    BindingApplied
    => \A f \in DOMAIN tfFiles :
          (/\ LastApplied.add = ""
           /\ DeclaredIn(LastApplied, f)
           /\ DeclaredMembers(LastApplied, f) = {LastApplied.member})
          => /\ OthersUnchanged(previousFiles, originalFiles, f)
             /\ SplitNL(originalFiles[f].contents)
                    = CommentDelimited(SplitNL(previousFiles[f].contents),
                                       BlockLines(LastApplied, f)[1], BlockLines(LastApplied, f)[2])

\* the lines with every role set to `add`
WithRole(lines, add) ==
    [k \in DOMAIN lines |->
        [i \in DOMAIN lines[k] |-> IF lines[k][i].k = "role" THEN Role(add) ELSE lines[k][i]]]

\* C7: when the recommendation has an add and the member list of the declaration
\* holds only the member, the file afterwards is the file with the declaration
\* comment-delimited, then a blank line, then a copy of exactly the lines of the
\* declaration with the role set to add and everything else, the member list
\* included, as in the declaration.
C7_BlockReplaced ==
    BindingApplied
    => \A f \in DOMAIN tfFiles :
          (/\ LastApplied.add # ""
           /\ DeclaredIn(LastApplied, f)
           /\ DeclaredMembers(LastApplied, f) = {LastApplied.member})
          => LET before == SplitNL(previousFiles[f].contents)
                 s == BlockLines(LastApplied, f)[1]
                 e == BlockLines(LastApplied, f)[2]
             IN /\ OthersUnchanged(previousFiles, originalFiles, f)
                /\ originalFiles[f].contents
                       = JoinNL(CommentDelimited(before, s, e)) \o <<NL, NL>>
                             \o JoinNL(WithRole(SubSeq(before, s, e), LastApplied.add))

\* a line without its comment markers
Strip(line) ==
    LET IsText(t) == t \notin {CommentOpen, CommentClose}
    IN SelectSeq(line, IsText)

\* the lines `out` are the lines `in` with edits applied: a line of the input is
\* itself, with comment markers or not, or a machine type line written for a
\* matched resource; an appended line is blank or a line of the input with
\* another role
EditsOf(out, in) ==
    /\ Len(out) >= Len(in)
    /\ \A k \in DOMAIN out :
          IF k <= Len(in)
          THEN \/ Strip(out[k]) = in[k]
               \/ /\ type = "VM"
                  /\ \E r \in Range(resourceNames) : out[k] = NewMachineTypeLine(r.size)
          ELSE \/ out[k] = <<>>
               \/ /\ type = "IAM"
                  /\ \E j \in DOMAIN in : \E r \in Range(resourceNames) :
                        Strip(out[k]) \in {in[j], WithRole(<<in[j]>>, r.add)[1]}

\* a value written as a reference to a variable or to a service account
IsReference(tok) == tok.a \in VarRefs \/ tok.a \in SAMemberRefs

\* C8: what is written is the original content with the edits applied: until the
\* write the contents to write are the lines of the files on disk, references
\* unresolved, but for the edited lines, and the write puts exactly these
\* contents on disk; no line of the resolved view is written.
C8_OriginalWritten ==
    /\ pc = "edit"
       => LET input == readAllTFFiles(disk, RepoPath)
          IN /\ DOMAIN originalFiles = DOMAIN input
             /\ \A f \in DOMAIN input :
                   /\ originalFiles[f].path = input[f].path
                   /\ EditsOf(SplitNL(originalFiles[f].contents), SplitNL(input[f].contents))
    /\ (pc = "done" /\ resourceNames # <<>>) => readAllTFFiles(disk, RepoPath) = originalFiles

\* C8 witness: a file was written with an edit and, on another line, a reference
\* that the resolved view had replaced by its value
C8_Witness ==
    /\ pc = "done"
    /\ \E f \in DOMAIN originalFiles :
          LET out == SplitNL(readAllTFFiles(disk, RepoPath)[f].contents)
              view == SplitNL(tfFiles[f].contents)
          IN /\ \E k \in DOMAIN out : out[k] # Strip(out[k])
             /\ \E k \in DOMAIN view :
                   /\ out[k] # view[k]
                   /\ \E i \in DOMAIN out[k] : IsReference(out[k][i])

\* the recommendation's project as the state names it: the project number of
\* the project ID, or the ID itself for the stub
ResolvedProject(p) == IF isStub THEN p ELSE ProjectNumbers[p]

\* the <<resource, instance>> of the state that recommendation r pertains to
IAMHolders(r) ==
    UNION {{<<k, n>> : n \in {j \in DOMAIN tfState.resources[k].instances :
               LET a == tfState.resources[k].instances[j].attributes
               IN /\ tfState.resources[k].type = IAMType
                  /\ ResolvedProject(a.project) = r.project
                  /\ a.role = r.role
                  /\ \E i \in DOMAIN a.members : a.members[i] = r.member}} :
              k \in DOMAIN tfState.resources}

\* the matched resource of recommendation r and the binding h
MatchedBinding(r, h) ==
    [f \in DOMAIN r \cup {"resourceName"} |->
        IF f = "resourceName" THEN tfState.resources[h[1]].name
        ELSE IF f = "project" THEN tfState.resources[h[1]].instances[h[2]].attributes.project
        ELSE r[f]]

\* C10: getIAMBindingsFromState returns a matched resource for a recommendation
\* and a binding of the state exactly when the binding is a
\* google_project_iam_binding whose resolved project is the recommendation's
\* project, whose role is its role and whose members hold its member; the
\* result is the recommendation with project set to the binding's project as
\* the state writes it and resourceName set to the binding's name; resources of
\* other types never match.
C10_IAMMatch ==
    (type = "IAM" /\ pc # "start")
    => Range(resourceNames)
           = UNION {{MatchedBinding(r, h) : h \in IAMHolders(r)} : r \in Range(recommendations)}

\* C10 witness: project numbers in use; one recommendation matched, with the
\* project ID of the state in place of its number, and one not matched
C10_Witness ==
    /\ type = "IAM" /\ pc # "start" /\ ~isStub
    /\ \E r \in Range(recommendations) : IAMHolders(r) = {}
    /\ \E m \in Range(resourceNames) : m.project = "p1" /\ m.resourceName = "admins"
    /\ \E k \in DOMAIN tfState.resources :
          /\ tfState.resources[k].type # IAMType
          /\ tfState.resources[k].instances[1].attributes.role = "roles/editor"

\* ------------------------------------------------------------ C11
\* the entries of a directory that carry the file name of path
Named(dir, path) ==
    {e \in Range(dir) : e.base = path.base /\ e.ext = path.ext /\ ~e.isDirectory}

\* the files in whose resolved view no declaration of a matched resource is found
Unmatched == DOMAIN tfFiles \ UNION {FoundIn(resourceNames[n]) : n \in DOMAIN resourceNames}

\* C11: when the write step completes, every file whose content differs from
\* what was read stands in the directory written to (destPath, or the manifest
\* directory when no destPath is given) under the file name it has in the
\* manifest directory, and every file in which no declaration was matched has,
\* in the manifest directory and in the directory written to, the content that
\* was read.
C11_ChangedWritten ==
    [][(pc = "edit" /\ pc' = "done")
       => LET input == readAllTFFiles(disk, RepoPath)
              target == IF destPath = "" THEN disk' ELSE destDisk'
          IN /\ DOMAIN input = DOMAIN originalFiles
             /\ \A k \in DOMAIN originalFiles :
                   /\ originalFiles[k].contents # input[k].contents
                      => /\ Named(target, input[k].path) # {}
                         /\ \A e \in Named(target, input[k].path) :
                               e.contents = originalFiles[k].contents
                   /\ k \in Unmatched
                      => /\ Named(target, input[k].path) # {}
                         /\ \A e \in Named(target, input[k].path) \cup Named(disk', input[k].path) :
                               e.contents = input[k].contents]_vars

\* C11 witness: a run with a destPath has written a changed file and a file in
\* which nothing was matched, over a file of an earlier run
C11_Witness ==
    /\ pc = "done" /\ destPath # ""
    /\ Unmatched # {}
    /\ Len(destDisk) = Len(originalFiles)
    /\ \E k \in DOMAIN originalFiles :
          /\ originalFiles[k].contents # readAllTFFiles(disk, RepoPath)[k].contents
          /\ \E e \in Named(destDisk, originalFiles[k].path) :
                e.contents = originalFiles[k].contents
\* ------------------------------------------------------------ C12
\* the calls of applyRecommendations that follow the edit
AfterEdit == {"commitChanges", "createPullRequest", "createCommit", "markClaimed"}

\* C12: when a file write of the write step is rejected, the edit function
\* raises and returns no list, the files that were written keep their new
\* content, and the route commits nothing, opens no pull request, stores no
\* document and marks nothing claimed; markClaimed is called only in runs in
\* which every file was written.
C12_WriteFailureFailsRun ==
    /\ unwritten # {}
       => /\ pc \in {"failed", "responded"}
          /\ response \in {"none", "500"}
          /\ \A c \in Range(calls) : c.op \notin AfterEdit
          /\ db = EarlierDocuments
          /\ \A k \in DOMAIN originalFiles \ unwritten :
                /\ Named(disk, originalFiles[k].path) # {}
                /\ \A e \in Named(disk, originalFiles[k].path) :
                      e.contents = originalFiles[k].contents
    /\ (\E c \in Range(calls) : c.op = "markClaimed")
       => /\ unwritten = {}
          /\ readAllTFFiles(disk, RepoPath) = originalFiles

\* C12 witness: of two edited files one was written and one was rejected, with a
\* recommendation to claim, and the request was answered
C12_Witness ==
    /\ response = "500" /\ Cardinality(unwritten) = 1
    /\ Len(recommendationsToClaim) > 0
    /\ \A k \in DOMAIN originalFiles : originalFiles[k].contents # tfFiles[k].contents
    /\ \E k \in DOMAIN originalFiles \ unwritten :
          \E e \in Named(disk, originalFiles[k].path) : e.contents = originalFiles[k].contents
C14_NoVariablesFile ==
    ~VarFileOf(disk).exists
    => /\ DOMAIN getTFVariables(VarFileOf(disk)) = {}
       /\ pc = "edit"
          => tfFiles = IF type = "VM" THEN readAllTFFiles(disk, RepoPath)
                       ELSE replaceServiceAccountValues(readAllTFFiles(disk, RepoPath))
       /\ \/ pc \in {"start", "read", "done"}
          \/ pc = "edit" /\ next \in 1..(Len(resourceNames) + 1)
          \/ /\ pc = "failed" /\ type = "IAM" /\ next \in DOMAIN resourceNames
             /\ \E index \in DOMAIN tfFiles :
                   ModifyBindingInFile(tfFiles[index], originalFiles[index],
                                       resourceNames[next]).branch = "throw"

\* C14 witness: a run without terraform.tfvars has returned a claimed
\* recommendation, and the text it matched in still held a reference to a variable
C14_Witness ==
    /\ ~VarFileOf(disk).exists
    /\ pc = "done"
    /\ Len(recommendationsToClaim) > 0
    /\ \E f \in DOMAIN tfFiles : \E i \in DOMAIN tfFiles[f].contents :
          tfFiles[f].contents[i].a \in VarRefs
\* ------------------------------------------------------------ C15
\* the calls of applyRecommendations that follow the edit, as they were made
RouteCalls ==
    LET IsAfterEdit(c) == c.op \in AfterEdit
    IN SelectSeq(calls, IsAfterEdit)

\* the order of lines 58-72
RouteOrder == <<"commitChanges", "createPullRequest", "createCommit", "markClaimed">>

MarkedBy(op) ==
    UNION {{c.arg[k].id : k \in DOMAIN c.arg} : c \in {d \in Range(calls) : d.op = op}}

\* C16: in a run with stub set, setRecommendationStatus is never called with
\* markClaimed, the document of the run is stored with stub = true, db.getCommit
\* answers no recommendation ID for it, and no call of /ci marks a
\* recommendation of the run succeeded.
C16_StubNeverMarked ==
    isStub
    => /\ MarkedBy("markClaimed") = {}
       /\ \A c \in Range(calls) : c.op # "markClaimed"
       /\ UniqueID(RepoName, NewCommit) \in DOMAIN db
          => /\ db[UniqueID(RepoName, NewCommit)].stub
             /\ db[UniqueID(RepoName, NewCommit)].recommendationIDs
                    = [k \in DOMAIN recommendationsToClaim |-> recommendationsToClaim[k].id]
             /\ getCommit(db, RepoName, NewCommit, TRUE) = <<>>
       /\ MarkedBy("markSucceeded")
              \cap {recommendationsToClaim[k].id : k \in DOMAIN recommendationsToClaim} = {}

\* C16 witness: /ci has answered 201 for a build whose parents are the commit of
\* a stub run, with its document stored, and the commit of an earlier run, whose
\* recommendation it marked succeeded
C16_Witness ==
    /\ isStub /\ ciResponse = "201"
    /\ UniqueID(RepoName, NewCommit) \in DOMAIN db
    /\ Len(db[UniqueID(RepoName, NewCommit)].recommendationIDs) > 0
    /\ \E c \in Range(calls) : c.op = "getCommit" /\ c.arg = NewCommit /\ c.ok
    /\ MarkedBy("markSucceeded") = {"r0"}
\* ------------------------------------------------------------ C17
\* what ci calls
CiCalls ==
    LET IsOfCi(c) == c.op \in {"getParentCommits", "getCommit", "getRecommendations",
                               "markSucceeded"}
    IN SelectSeq(calls, IsOfCi)

\* the lookups ci made in the DB, one per parent commit
Lookups ==
    LET IsLookup(c) == c.op = "getCommit"
    IN SelectSeq(calls, IsLookup)

\* the lists ci handed to setRecommendationStatus
Succeeded ==
    LET IsMark(c) == c.op = "markSucceeded"
    IN SelectSeq(calls, IsMark)

\* the recommendation IDs the DB holds for a commit
RecordedFor(commitID) ==
    IF UniqueID(RepoName, commitID) \in DOMAIN db
    THEN db[UniqueID(RepoName, commitID)].recommendationIDs
    ELSE <<>>

\* the payload is a build that succeeded and carries substitutions
BuildSucceeded ==
    /\ ciPayload.json /\ ciPayload.object
    /\ ciPayload.status = "SUCCESS" /\ ciPayload.substitutions

\* C17 as the claim states it: ci marks recommendations succeeded only for a
\* payload of status SUCCESS with substitutions; when it then answers 201 it has
\* marked exactly the recommendation IDs the DB holds for the parent commits;
\* any other payload is answered 200 and GitHub, the DB and the Recommender API
\* are not called.
C17_MarksRecorded ==
    ciResponse # "none"
    => /\ Succeeded # <<>> => BuildSucceeded
       /\ IF BuildSucceeded
          THEN ciResponse = "201"
               => /\ Len(Succeeded) = 1
                  /\ Succeeded[1].arg = Recommendations(Flatten(
                         [k \in DOMAIN Lookups |-> RecordedFor(Lookups[k].arg)]))
          ELSE ciResponse = "200" /\ CiCalls = <<>>

\* C17 as it holds: the IDs marked are those db.getCommit yields for the parent
\* commits, the IDs of the documents that were read and were not stored with
\* stub = true; a payload object of another status or without substitutions is
\* answered 200, the JSON null is answered 500 and a body that is no JSON is not
\* answered, all three without a call to GitHub, the DB or the Recommender API.
C17_MarksYielded ==
    ciResponse # "none"
    => /\ Succeeded # <<>> => BuildSucceeded
       /\ IF BuildSucceeded
          THEN /\ ciResponse \in {"201", "500"}
               /\ ciResponse = "201"
                  => /\ Len(Succeeded) = 1 /\ Succeeded[1].ok
                     /\ Succeeded[1].arg = Recommendations(Flatten(
                            [k \in DOMAIN Lookups |->
                                getCommit(db, RepoName, Lookups[k].arg, Lookups[k].ok)]))
          ELSE /\ CiCalls = <<>>
               /\ ciResponse = IF ~ciPayload.json THEN "unanswered"
                               ELSE IF ~ciPayload.object THEN "500" ELSE "200"

\* C17 witness: after a run without stub whose document holds two
\* recommendations, ci answered 201 for a build with two parents, the commit of
\* the run and the one of an earlier run, and marked the three recommendations
C17_Witness ==
    /\ ~isStub /\ ciResponse = "201"
    /\ Len(RecordedFor(NewCommit)) = 2
    /\ Len(Lookups) = 2
    /\ Len(Succeeded) = 1 /\ Len(Succeeded[1].arg) = 3
\* ------------------------------------------------------------ C18
\* the <<file, line>> of the literal machine_type assignments that lie inside a
\* declaration of the compute instance `name`, in the resolved view
OwnAssignments(name) ==
    UNION {{<<f, LineOf(tfFiles[f].contents, j)>> :
               j \in UNION {{n \in Segment(tfFiles[f].contents, i) :
                                /\ tfFiles[f].contents[n].k = "mt"
                                /\ IsWord(tfFiles[f].contents[n].a)} :
                            i \in {d \in DOMAIN tfFiles[f].contents :
                                      tfFiles[f].contents[d] = Res(VMType, name)}}} :
              f \in DOMAIN tfFiles}

\* the files in which a declaration of `name` holds such an assignment
OwnFiles(name) == {place[1] : place \in OwnAssignments(name)}

\* C18: the first iteration of findAndModifyInstances replaces only lines that
\* are a literal machine_type assignment inside a declaration of the compute
\* instance named tfResourceName, and claims the recommendation once for every
\* file that holds one; when the declaration has no such assignment and a later
\* declaration of the file has one, no line changes and nothing is claimed.
C18_OnlyOwnBlock ==
    (type = "VM" /\ pc \in {"edit", "done"} /\ next = 2)
    => /\ ChangedLines(previousFiles, originalFiles) \subseteq OwnAssignments(LastApplied.tfResourceName)
       /\ recommendationsToClaim
              = Times(Cardinality(OwnFiles(LastApplied.tfResourceName)), Claim(LastApplied))
\* ------------------------------------------------------------ C19
\* the members that earlier iterations of the run took out of the declaration
\* of `resource` in file f
RemovedBefore(n, resource, f) ==
    {resourceNames[k].member :
        k \in {j \in 1..(n - 1) : /\ resourceNames[j].resourceName = resource.resourceName
                                  /\ f \in FoundIn(resourceNames[j])}}

\* C19: the branch an iteration of findAndModifyIAMRoleBindings takes follows
\* the members the declaration has at that moment, those removed by earlier
\* iterations of the run not counted: the line of the member is commented out
\* when another member is left, the whole block when none is.
C19_CurrentMembers ==
    BindingApplied
    => \A f \in DOMAIN tfFiles :
          DeclaredIn(LastApplied, f)
          => LET current == DeclaredMembers(LastApplied, f)
                               \ RemovedBefore(next - 1, LastApplied, f)
                 taken == ModifyBindingInFile(tfFiles[f], previousFiles[f], LastApplied).branch
             IN (taken = "line") <=> (current \ {LastApplied.member} # {})
\* ------------------------------------------------------------ C20
\* an iteration of one of the two loops has run and nothing is written yet
IterationDone == pc = "edit" /\ next > 1

\* the <<file, line>> that the iterations before the last one changed
EarlierEdits == ChangedLines(readAllTFFiles(disk, RepoPath), previousFiles)

TargetLines(f) ==
    LET text == tfFiles[f].contents
    IN IF type = "VM"
       THEN LET matches == FindInstance(text, LastApplied.tfResourceName)
            IN IF matches.found
               THEN {findLineNumbersFromCharacters(text, matches.word - 1)}
               ELSE {}
       ELSE LET matches == FindBinding(text, LastApplied)
                taken == ModifyBindingInFile(tfFiles[f], previousFiles[f], LastApplied).branch
            IN IF taken = "line"
               THEN {findLineNumbersFromCharacters(text, matches.member - 1)}
               ELSE IF taken \in {"block", "block+add"}
               THEN {findLineNumbersFromCharacters(text, matches.start - 1),
                     findLineNumbersFromCharacters(text, MatchEnd(text, matches))}
               ELSE {}

InComment(text, i) ==
    \E j \in 1..(i - 1) :
        /\ text[j] = CommentOpen
        /\ \A k \in (j + 1)..(i - 1) : text[k] # CommentClose

\* the tokens of the text that stand outside every comment, each with its line
Uncommented(text) ==
    {<<LineOf(text, i), text[i]>> : i \in {j \in DOMAIN text : ~InComment(text, j)}}

\* C21: after the branch that comments out the line of the removed member, the
\* header of the declaration and every other member of its list that stood
\* outside a comment before the edit still stand outside every comment.
C21_RemainingDeclared ==
    BindingApplied
    => \A f \in DOMAIN tfFiles :
          (/\ DeclaredIn(LastApplied, f)
           /\ ModifyBindingInFile(tfFiles[f], previousFiles[f], LastApplied).branch = "line")
          => LET view == tfFiles[f].contents
                 before == previousFiles[f].contents
                 b == FindBinding(view, LastApplied)
                 kept == {b.start} \cup
                         {i \in b.open..b.close :
                             view[i].k = "mem" /\ view[i] # Mem(LastApplied.member)}
             IN \A i \in kept :
                   <<LineOf(before, i), before[i]>> \in Uncommented(before)
                   => <<LineOf(before, i), before[i]>>
                         \in Uncommented(originalFiles[f].contents)
\* ------------------------------------------------------------ C22
\* C22: whatever a second run does, the directory the run works in holds what
\* the run itself put there: what it cloned while it matches, reads and edits,
\* and what it wrote when it comes to commit.
C22_CheckoutIsolated ==
    /\ pc \in {"start", "read", "edit"} => disk = origin
    /\ (pc = "done" /\ resourceNames # <<>>) => readAllTFFiles(disk, RepoPath) = originalFiles
\* ------------------------------------------------------------ C23
\* the service accounts the files declare: the names of the declarations of
\* google_service_account that hold a literal account_id
DeclaredAccounts(files) ==
    {files[d[1]].contents[d[2]].b :
        d \in {e \in UNION {{<<f, i>> : i \in DOMAIN files[f].contents} : f \in DOMAIN files} :
                 LET text == files[e[1]].contents
                 IN /\ text[e[2]].k = "res" /\ text[e[2]].a = SAType
                    /\ \E j \in Segment(text, e[2]) :
                          text[j].k = "account_id" /\ IsIdent(text[j].a)}}

\* the account_id that the declaration of the service account `name` holds
AccountIdOf(files, name) ==
    LET d == CHOOSE e \in Places(files, Res(SAType, name)) : TRUE
        text == files[d[1]].contents
        j == CHOOSE j \in Segment(text, d[2]) : text[j].k = "account_id"
    IN text[j].a

\* the files have been read and resolved, and no resource is applied yet
Resolved == type = "IAM" /\ pc = "edit" /\ next = 1

\* C23: in the resolved view every reference to the account_id of a service
\* account that some file declares reads as that account_id, whatever the file
\* and the place of the declaration, and every reference to a service account
\* that no file declares is as it was read.
C23_EveryAccountMapped ==
    Resolved
    => \A f \in DOMAIN originalFiles : \A i \in DOMAIN originalFiles[f].contents :
          \A n \in SANames :
             originalFiles[f].contents[i] = Mem(SAMember(SARef(n)))
             => tfFiles[f].contents[i]
                   = IF n \in DeclaredAccounts(originalFiles)
                     THEN Mem(SAMember(AccountIdOf(originalFiles, n)))
                     ELSE Mem(SAMember(SARef(n)))
\* ------------------------------------------------------------ C24
\* the projects getProjectNumberFromProjectID was called with, as they came
Looked ==
    LET IsLookup(c) == c.op = "getProjectNumberFromProjectID"
        made == SelectSeq(calls, IsLookup)
    IN [k \in DOMAIN made |-> made[k].arg]

\* getIAMBindingsFromState has run
BindingsMatched == type = "IAM" /\ pc \in {"read", "edit", "done"}

\* C24: in one call of getIAMBindingsFromState the project number of a project
\* of the state is looked up at most once, however many instances name the
\* project, and with stub it is not looked up at all.
C24_LookedUpOnce ==
    type = "IAM"
    => /\ \A i, j \in DOMAIN Looked : Looked[i] = Looked[j] => i = j
       /\ Range(Looked) \subseteq StateProjects(tfState)
       /\ isStub => Looked = <<>>
       /\ (BindingsMatched /\ ~isStub) => Range(Looked) = StateProjects(tfState)

\* C24 witness: without stub, a state of four instances naming two projects was
\* matched with two lookups
C24_Witness ==
    /\ BindingsMatched /\ ~isStub /\ pc = "read"
    /\ Len(ProjectsInOrder(tfState)) = 4
    /\ Len(Looked) = 2
    /\ Len(resourceNames) > 0
\* ------------------------------------------------------------ C25
\* the offsets of line n of the text, from its first character to the newline
\* that ends it (or to the end of the text)
OffsetsOfLine(text, n) == {o \in 0..(Len(text) - 1) : LineOf(text, o + 1) = n}

\* the texts findLineNumbersFromCharacters is applied to: the resolved view
TextsRead == IF pc = "edit" THEN {tfFiles[f].contents : f \in DOMAIN tfFiles} ELSE {}

\* C25 as the specification states it: for every offset of a text, the line
\* whose number findLineNumbersFromCharacters returns holds the offset.
C25_RoundTrip ==
    \A text \in TextsRead : \A o \in 0..(Len(text) - 1) :
        o \in OffsetsOfLine(text, findLineNumbersFromCharacters(text, o))

\* C25, amended: findLineNumbersFromCharacters returns 1 plus the number of
\* newlines at the offsets 0..offset; the line of that number holds the offset
\* when the character at the offset is no newline, and is the line after the
\* one the newline ends when it is.
C25_CountsNewlines ==
    \A text \in TextsRead : \A o \in 0..(Len(text) - 1) :
        LET line == findLineNumbersFromCharacters(text, o)
        IN /\ line = 1 + Cardinality({i \in 1..(o + 1) : text[i] = NL})
           /\ IF text[o + 1] = NL
              THEN o \in OffsetsOfLine(text, line - 1)
              ELSE o \in OffsetsOfLine(text, line)

\* C25 witness: the function was applied to a text of several lines, and for
\* the offset of the machine_type found in it the line returned, which is not
\* the first, holds the offset
C25_Witness ==
    /\ type = "VM" /\ pc = "edit" /\ next > 1
    /\ \E f \in DOMAIN tfFiles :
          LET text == tfFiles[f].contents
              matches == FindInstance(text, LastApplied.tfResourceName)
              line == findLineNumbersFromCharacters(text, matches.word - 1)
          IN /\ matches.found
             /\ line > 1
             /\ (matches.word - 1) \in OffsetsOfLine(text, line)
             /\ \E o \in 0..(Len(text) - 1) : text[o + 1] = NL
\* ------------------------------------------------------------ C26
\* a line with the references on it resolved: those to the variables of
\* terraform.tfvars and those to the service accounts found in the files
ResolvedLine(line) ==
    LET variables == getTFVariables(VarFileOf(disk))
        serviceAccounts ==
            ServiceAccountsOf(replaceVariableValuesInTFFiles(VarFileOf(disk), originalFiles),
                              <<>>)
    IN [i \in DOMAIN line |->
           ReplaceSATok(ReplaceVarTok(line[i], variables), serviceAccounts)]

\* C26: the resolved view of a file has the lines of the file as it was read,
\* each of them resolved, so that a line number of the view is the number of
\* the same line of the file.
C26_LinesAligned ==
    (pc = "edit" /\ next = 1)
    => \A f \in DOMAIN tfFiles :
          LET view == SplitNL(tfFiles[f].contents)
              read == SplitNL(originalFiles[f].contents)
          IN /\ Len(view) = Len(read)
             /\ \A k \in DOMAIN view \cap DOMAIN read : view[k] = ResolvedLine(read[k])
\* ------------------------------------------------------------ C27
\* the list of members that the pattern finds for resource k in some file of
\* the resolved view is no JSON array: JSON.parse raises
Unparsable(k) ==
    \E index \in DOMAIN tfFiles :
        ModifyBindingInFile(tfFiles[index], tfFiles[index], resourceNames[k]).branch = "throw"

\* C27: when the files are read and the list of members found for a matched
\* resource cannot be parsed, the run gets no further than that resource: no
\* file of the directory is changed, nothing is committed, no pull request is
\* opened, no document is stored, nothing is marked claimed, and the only
\* answer is 500; so it is too when resources before it were applied.
C27_UnparsedFailsRun ==
    (type = "IAM" /\ tfFiles # <<>>)
    => \A k \in DOMAIN resourceNames :
          Unparsable(k)
          => /\ pc \in {"edit", "failed", "responded"}
             /\ next <= k
             /\ disk = origin
             /\ \A c \in Range(calls) : c.op \notin AfterEdit
             /\ db = EarlierDocuments
             /\ response \in {"none", "500"}
             /\ pc = "responded" => response = "500"

\* C27 witness: the request was answered 500 after the second resource could
\* not be parsed, the first having been applied with a recommendation to claim
C27_Witness ==
    /\ type = "IAM" /\ tfFiles # <<>> /\ response = "500"
    /\ next = 2 /\ Unparsable(2) /\ ~Unparsable(1)
    /\ Len(recommendationsToClaim) > 0
    /\ originalFiles # readAllTFFiles(origin, RepoPath)
    /\ unwritten = {}
\* ------------------------------------------------------------ C28
\* the recommendation IDs of a list of {id, etag}
IdsOf(recs) == {recs[k].id : k \in DOMAIN recs}

\* the recommendation IDs the recommendation source listed for the request
Listed == {recommendations[k].recommendationID : k \in DOMAIN recommendations}

\* C28: a recommendation listed for this request is marked succeeded by ci only
\* after applyRecommendations marked it claimed.
C28_SucceededAfterClaimed ==
    \A i \in DOMAIN calls :
        (calls[i].op = "markSucceeded" /\ calls[i].ok)
        => \A id \in IdsOf(calls[i].arg) \cap Listed :
              \E j \in 1..(i - 1) :
                 /\ calls[j].op = "markClaimed" /\ calls[j].ok
                 /\ id \in IdsOf(calls[j].arg)
\* ------------------------------------------------------------ C29
\* C29: applyRecommendations marks recommendations claimed only when the
\* document that holds them for the commit was stored, so that db.getCommit
\* yields them for that commit.
C29_ClaimedOnlyRecorded ==
    \A i \in DOMAIN calls :
        calls[i].op = "markClaimed"
        => /\ \E j \in 1..(i - 1) : calls[j].op = "createCommit" /\ calls[j].ok
           /\ IdsOf(calls[i].arg) = Range(getCommit(db, RepoName, NewCommit, TRUE))
\* ------------------------------------------------------------ C30
\* the calls of applyRecommendations that touch the repository, GitHub, the DB
\* or the state of a recommendation
Effects == AfterEdit \cup {"cloneRepository", "getProjectNumberFromProjectID"}

\* nothing was cloned, read, edited, written, committed or stored
NothingDone ==
    /\ \A c \in Range(calls) : c.op \notin Effects
    /\ disk = origin
    /\ originalFiles = <<>> /\ tfFiles = <<>> /\ resourceNames = <<>>
    /\ recommendationsToClaim = <<>>
    /\ db = EarlierDocuments

\* C30: a request whose type is neither VM nor IAM is answered 500 without a
\* call to the recommendation source, and a request for which the source lists
\* nothing is answered 'Nothing to apply'; in both cases nothing is cloned,
\* edited, committed, stored or marked.
C30_NothingToApply ==
    /\ type \notin {"VM", "IAM"}
       => /\ NothingDone
          /\ \A c \in Range(calls) : c.op # "listRecommendations"
          /\ response \in {"none", "500"}
          /\ pc = "responded" => response = "500"
    /\ (type \in {"VM", "IAM"} /\ recommendations = <<>>)
       => /\ NothingDone
          /\ pc \in {"request", "caught", "responded"}
          /\ pc = "responded"
                => response = IF calls[1].ok THEN "200" ELSE "500"

\* C30 witness: the source was asked for IAM recommendations, listed none, and
\* the request was answered 'Nothing to apply'
C30_Witness ==
    /\ type = "IAM" /\ recommendations = <<>>
    /\ pc = "responded" /\ response = "200"
    /\ calls = <<Call("listRecommendations", "IAM", TRUE)>>
====
